---- MODULE Spec2Model ----
(***************************************************************************)
(* Model of the trip-planning turn handler plan_trip_from_prompt           *)
(* (backend/server.py), of the research cache it uses, for one request at  *)
(* a time and for requests in flight together, and of the OTP service.     *)
(*                                                                         *)
(* Python values are represented as follows.                               *)
(*   - None (and a missing dict key read with .get) is the string None.    *)
(*   - A numeric field that is None or missing is 0: the code only ever    *)
(*     tests such a value for truthiness.                                  *)
(*   - Amounts are integers.  A product with the literal 1.2 is kept       *)
(*     exact by carrying five times the amount (names ending in _x5).      *)
(*     For integer inputs the floating-point comparisons of the code       *)
(*     agree with the exact ones, but for daily_per_person <               *)
(*     estimated_min_daily * 1.3 where the two sides are equal as          *)
(*     rationals: there the roundings of the doubles decide, and the       *)
(*     model computes them bit by bit.                                     *)
(*   - The outcome of an external call is a record with a field kind.      *)
(***************************************************************************)
EXTENDS Integers, Sequences, FiniteSets, TLC

VARIABLES
    pc,                         \* position of the handler in the turn
    session,                    \* slots the caller holds for the next turn
    turns,                      \* number of turns completed by the caller
    previous_extraction,        \* request.previous_extraction
    intent,                     \* label returned by the intent classifier
    fresh,                      \* trip_details as returned by the extractor
    trip_details,               \* trip_details after the merge
    missing_fields,             \* list built by the completeness check
    research_cache,             \* destination -> research data
    research_cache_timestamps,  \* destination -> insertion time
    now,                        \* datetime.now(), in seconds
    ticks,                      \* number of clock advances so far
    research_data,              \* research data used by the turn
    feasibility,                \* result of the budget validation step
    response,                   \* TripResponse returned (or HTTP error)
    calls,                      \* collaborators invoked during the turn
    otp_storage,                \* otp_service.otp_storage
    otp_now,                    \* datetime.now() of the OTP service, seconds
    otp_result,                 \* what the last OTP operation returned
    otp_issued,                 \* per identifier, the last send-otp response
                                \* and what verify_otp did since
    inflight,                   \* per request in flight, where its coroutine
                                \* stands and what it read and wrote
    running,                    \* request whose coroutine holds the event
                                \* loop, 0 when the loop is free
    cache_object                \* destination -> identity of the dict that
                                \* research_cache holds for it

\* the variables of the trip-planning handler
handler_vars == <<pc, session, turns, previous_extraction, intent, fresh,
                  trip_details, missing_fields, research_cache,
                  research_cache_timestamps, now, ticks, research_data,
                  feasibility, response, calls>>

\* the variables of the OTP service
otp_vars == <<otp_storage, otp_now, otp_result, otp_issued>>

\* the variables of the event loop that runs the handler's coroutines
loop_vars == <<inflight, running, cache_object>>

vars == <<handler_vars, otp_vars, loop_vars>>

----------------------------------------------------------------------------
(* Bounds of the model *)

MaxTurns == 3

MaxTicks == 2

\* requests in flight at once
MaxRequests == 3

----------------------------------------------------------------------------
(* Python values *)

None == "<None>"

\* str.lower() on the strings of the model
Lower(s) ==
    CASE s = "Not specified" -> "not specified"
      [] s = "Anywhere"      -> "anywhere"
      [] s = "N/A"           -> "n/a"
      [] s = "Mumbai"        -> "mumbai"
      [] s = "Goa"           -> "goa"
      [] s = "Ladakh"        -> "ladakh"
      [] s = "GOA"           -> "goa"
      [] s = "Goa, India"    -> "goa, india"
      [] OTHER               -> s

\* truth value of a str-or-None
TruthyStr(s) == s # None /\ s # ""

\* truth value of a number (None is carried as 0)
TruthyNum(n) == n # 0

\* the sentinel list of the merge (server.py 2195, 2201)
MergeSentinels == {"not specified", "unknown", "n/a", ""}

\* the sentinel list of the required-field validation (server.py 2270, 2276)
ValidationSentinels == {"not specified", "unknown", "n/a", "", "anywhere"}

\* request.previous_extraction when the request carries none ({} or None)
NoPrevious ==
    [origin_city |-> None, destination |-> None, num_days |-> 0,
     num_people |-> 0, budget |-> 0, start_date |-> None,
     interests |-> None, original_destination |-> None,
     was_budget_insufficient |-> FALSE]

\* TripDetails before the extractor has produced one
NoDetails ==
    [origin_city |-> None, destination |-> None, num_days |-> 0,
     num_people |-> 0, budget |-> 0, start_date |-> None,
     interests |-> None]

----------------------------------------------------------------------------
(* Slot merge, server.py 2189-2257 *)

MergeOriginCity(prev, new) ==
    IF Lower(new.origin_city) \in MergeSentinels /\ TruthyStr(prev.origin_city)
    THEN prev.origin_city
    ELSE new.origin_city

MergeDestination(prev, new) ==
    IF Lower(new.destination) \in MergeSentinels /\ TruthyStr(prev.destination)
    THEN prev.destination
    ELSE new.destination

MergeNumDays(prev, new) ==
    IF (~TruthyNum(new.num_days) \/ new.num_days <= 0) /\ TruthyNum(prev.num_days)
    THEN prev.num_days
    ELSE new.num_days

MergeNumPeople(prev, new) ==
    IF (~TruthyNum(new.num_people) \/ new.num_people <= 0)
       /\ TruthyNum(prev.num_people)
    THEN prev.num_people
    ELSE new.num_people

MergeBudget(prev, new) ==
    IF (~TruthyNum(new.budget) \/ new.budget <= 0) /\ TruthyNum(prev.budget)
    THEN prev.budget
    ELSE new.budget

\* RestoresOriginal with ">=" for ">": an unchanged budget restores too
RestoresOriginal_NotStrict(prev, new) ==
    /\ ~((~TruthyNum(new.budget) \/ new.budget <= 0) /\ TruthyNum(prev.budget))
    /\ TruthyNum(new.budget) /\ new.budget > 0 /\ TruthyNum(prev.budget)
    /\ new.budget >= prev.budget
    /\ TruthyStr(prev.original_destination)

\* the budget-update branch that restores the original destination
RestoresOriginal(prev, new) ==
    /\ ~((~TruthyNum(new.budget) \/ new.budget <= 0) /\ TruthyNum(prev.budget))
    /\ TruthyNum(new.budget) /\ new.budget > 0 /\ TruthyNum(prev.budget)
    /\ new.budget > prev.budget
    /\ TruthyStr(prev.original_destination)

MergeInterests(prev, new) ==
    IF ~TruthyStr(new.interests) /\ TruthyStr(prev.interests)
    THEN prev.interests
    ELSE new.interests

MergeStartDate(prev, new) ==
    IF ~TruthyStr(new.start_date) /\ TruthyStr(prev.start_date)
    THEN prev.start_date
    ELSE new.start_date

\* trip_details after the block "if request.previous_extraction:"
Merge(prev, new) ==
    IF prev = NoPrevious
    THEN new
    ELSE [origin_city |-> MergeOriginCity(prev, new),
          destination |-> IF RestoresOriginal(prev, new)
                          THEN prev.original_destination
                          ELSE MergeDestination(prev, new),
          num_days    |-> MergeNumDays(prev, new),
          num_people  |-> MergeNumPeople(prev, new),
          budget      |-> MergeBudget(prev, new),
          start_date  |-> MergeStartDate(prev, new),
          interests   |-> MergeInterests(prev, new)]

----------------------------------------------------------------------------
(* Required-field validation, server.py 2262-2299 *)

OriginMissing(td) ==
    ~TruthyStr(td.origin_city) \/ Lower(td.origin_city) \in ValidationSentinels

DestinationMissing(td) ==
    ~TruthyStr(td.destination) \/ Lower(td.destination) \in ValidationSentinels

DurationMissing(td) == ~TruthyNum(td.num_days) \/ td.num_days <= 0

BudgetMissing(td) == ~TruthyNum(td.budget) \/ td.budget <= 0

StartDateMissing(td) == ~TruthyStr(td.start_date)

MissingFields(td) ==
    (IF OriginMissing(td) THEN <<"origin city">> ELSE <<>>)
    \o (IF DestinationMissing(td) THEN <<"destination">> ELSE <<>>)
    \o (IF DurationMissing(td) THEN <<"duration">> ELSE <<>>)
    \o (IF BudgetMissing(td) THEN <<"budget">> ELSE <<>>)
    \o (IF StartDateMissing(td) THEN <<"start date">> ELSE <<>>)

----------------------------------------------------------------------------
(* Research cache, server.py 301-395 *)

RESEARCH_CACHE_DURATION_SECONDS == 3600

\* a research text in which the regular expressions find nothing: ''
EmptyText ==
    [nonempty |-> FALSE, marker |-> <<>>, rupee_amounts |-> <<>>,
     dollar_amounts |-> <<>>, rupee_matches |-> <<>>,
     dollar_matches |-> <<>>]

\* the value get_cached_research returns for a miss
NoResearch == [minimum_budget |-> EmptyText, travel_advisory |-> None,
               weather |-> None, document_info |-> None]

\* get_cached_research with "<=" for "<": an entry exactly as old as the
\* cache duration is still served
get_cached_research_Inclusive(cache, timestamps, destination, t) ==
    IF /\ destination \in DOMAIN cache
       /\ destination \in DOMAIN timestamps
       /\ t - timestamps[destination] <= RESEARCH_CACHE_DURATION_SECONDS
    THEN cache[destination]
    ELSE NoResearch

get_cached_research(cache, timestamps, destination, t) ==
    IF /\ destination \in DOMAIN cache
       /\ destination \in DOMAIN timestamps
       /\ t - timestamps[destination] < RESEARCH_CACHE_DURATION_SECONDS
    THEN cache[destination]
    ELSE NoResearch

\* research_cache[destination] = data
cache_research_data(cache, destination, data) ==
    [k \in DOMAIN cache \cup {destination} |->
        IF k = destination THEN data ELSE cache[k]]

\* research_cache_timestamps[destination] = datetime.now()
cache_research_time(timestamps, destination, t) ==
    [k \in DOMAIN timestamps \cup {destination} |->
        IF k = destination THEN t ELSE timestamps[k]]

----------------------------------------------------------------------------
(* Minimum daily budget from the research text, server.py 2389-2414.       *)
(* A research text is carried as the amounts written in it and what the    *)
(* three regular expressions find in it: rupee_amounts and dollar_amounts  *)
(* are the numbers written after a rupee sign and after a dollar sign,     *)
(* marker is the list of groups of the EXTRACTED MINIMUM search (empty     *)
(* when there is no match), rupee_matches and dollar_matches are the       *)
(* findall results as numbers.                                             *)

DefaultMinDaily == 2500

MinRupee == 1000

MaxRupee == 15000

MinDollar == 10

MaxDollar == 200

UsdRate == 83

\* most digits the group (\d{1,5}) of the rupee pattern takes
RupeeDigits == 5

\* most digits the group (\d{1,4}) of the dollar pattern takes
DollarDigits == 4

\* the number made of the first k digits of n: what the group \d{1,k}
\* captures where n is written
RECURSIVE FirstDigits(_, _)
FirstDigits(n, k) ==
    IF n < 10^k THEN n ELSE FirstDigits(n \div 10, k)

\* re.findall of a pattern whose group takes at most k digits, over the
\* amounts written after the pattern's currency sign
FindAll(amounts, k) ==
    [i \in 1..Len(amounts) |-> FirstDigits(amounts[i], k)]

RECURSIVE SelectRupee(_)
SelectRupee(ms) ==
    IF ms = <<>> THEN <<>>
    ELSE (IF MinRupee <= Head(ms) /\ Head(ms) <= MaxRupee
          THEN <<Head(ms)>> ELSE <<>>) \o SelectRupee(Tail(ms))

RECURSIVE SelectDollar(_)
SelectDollar(ms) ==
    IF ms = <<>> THEN <<>>
    ELSE (IF MinDollar <= Head(ms) /\ Head(ms) <= MaxDollar
          THEN <<Head(ms) * UsdRate>> ELSE <<>>) \o SelectDollar(Tail(ms))

\* min() of a non-empty list
RECURSIVE MinOf(_)
MinOf(amounts) ==
    IF Len(amounts) = 1 THEN Head(amounts)
    ELSE LET m == MinOf(Tail(amounts))
         IN  IF Head(amounts) <= m THEN Head(amounts) ELSE m

EstimatedMinDaily(budget_info) ==
    IF ~budget_info.nonempty THEN DefaultMinDaily
    ELSE IF budget_info.marker # <<>> THEN budget_info.marker[1]
    ELSE IF budget_info.rupee_matches # <<>>
         THEN LET amounts == SelectRupee(budget_info.rupee_matches)
              IN  IF amounts # <<>> THEN MinOf(amounts) ELSE DefaultMinDaily
    ELSE IF budget_info.dollar_matches # <<>>
         THEN LET amounts == SelectDollar(budget_info.dollar_matches)
              IN  IF amounts # <<>> THEN MinOf(amounts) ELSE DefaultMinDaily
    ELSE DefaultMinDaily

----------------------------------------------------------------------------
(* Budget validation and tier, server.py 2388-2495 *)

\* the transport figure the try block ends up with: the primary estimate,
\* or the fallback estimate when the primary raised
TransportOutcome(primary, fallback) ==
    IF primary.kind = "raises" THEN fallback ELSE primary

\* an exception leaves the try block before estimated_min_total is
\* assigned (2446)
ValidationRaisesEarly(td, transport) ==
    \/ transport.kind = "raises"          \* estimate_transport_fallback raised
    \/ td.num_people = 0                  \* 2442 ZeroDivisionError
    \/ td.num_days = 0                    \* 2442 ZeroDivisionError
    \/ transport.kind = "returns_none"    \* 2446 TypeError

\* an exception leaves the try block and reaches "except Exception" (2490)
ValidationRaises(td, estimated_min_daily, transport) ==
    \/ ValidationRaisesEarly(td, transport)
    \/ estimated_min_daily = 0            \* 2487 ZeroDivisionError

\* estimated_min_total, times five
EstimatedMinTotal_x5(estimated_min_daily, td, transport_cost_total) ==
    6 * (estimated_min_daily * td.num_days * td.num_people)
    + 5 * transport_cost_total

IsBudgetSufficient(td, estimated_min_total_x5) ==
    5 * td.budget >= estimated_min_total_x5

(* Python floats: a positive double is [m, e], m its 53 significand bits,  *)
(* most significant first, and e the exponent of the last of them.         *)

\* bits of the significand of a double
DoubleBits == 53

\* bits by which a dividend is extended, so that the quotient has more
\* than DoubleBits bits before it is rounded
ExtraBits == 64

\* the bits of the natural n < 2^31, most significant first
Bits(n) ==
    IF n = 0 THEN <<>>
    ELSE LET len == CHOOSE l \in 1..31 : n \div 2^(l - 1) = 1
         IN  [i \in 1..len |-> (n \div 2^(len - i)) % 2]

Zeros(k) == [i \in 1..k |-> 0]

\* bits without its leading zeros
StripZeros(bits) ==
    IF \A i \in 1..Len(bits) : bits[i] = 0 THEN <<>>
    ELSE LET first == CHOOSE i \in 1..Len(bits) :
                          bits[i] = 1 /\ \A j \in 1..(i - 1) : bits[j] = 0
         IN  SubSeq(bits, first, Len(bits))

\* bits + 1
Increment(bits) ==
    IF \A i \in 1..Len(bits) : bits[i] = 1
    THEN <<1>> \o Zeros(Len(bits))
    ELSE LET last == CHOOSE i \in 1..Len(bits) :
                         bits[i] = 0 /\ \A j \in (i + 1)..Len(bits) : bits[j] = 1
         IN  [i \in 1..Len(bits) |->
                 IF i < last THEN bits[i] ELSE IF i = last THEN 1 ELSE 0]

\* long numbers are multiplied and divided in digits of LimbBits bits,
\* most significant first; the multiplier or divisor k is below 2^20
LimbBits == 10

Limb == 2^LimbBits

\* the digits of a number given by its bits
LimbsOfBits(bits) ==
    LET pad == (LimbBits - (Len(bits) % LimbBits)) % LimbBits
        padded == Zeros(pad) \o bits
    IN  [j \in 1..(Len(padded) \div LimbBits) |->
            LET b(r) == padded[LimbBits * (j - 1) + r]
            IN  512 * b(1) + 256 * b(2) + 128 * b(3) + 64 * b(4) + 32 * b(5)
                + 16 * b(6) + 8 * b(7) + 4 * b(8) + 2 * b(9) + b(10)]

\* the bits of a number given by its digits
BitsOfLimbs(limbs) ==
    StripZeros([i \in 1..(LimbBits * Len(limbs)) |->
        (limbs[(i - 1) \div LimbBits + 1]
            \div 2^(LimbBits - 1 - ((i - 1) % LimbBits))) % 2])

\* limbs * k + carry
RECURSIVE MulLimbs(_, _, _)
MulLimbs(limbs, k, carry) ==
    IF limbs = <<>>
    THEN IF carry = 0 THEN <<>>
         ELSE IF carry < Limb THEN <<carry>>
         ELSE <<carry \div Limb, carry % Limb>>
    ELSE LET t == limbs[Len(limbs)] * k + carry
         IN  Append(MulLimbs(SubSeq(limbs, 1, Len(limbs) - 1), k, t \div Limb),
                    t % Limb)

\* quotient q and remainder r of limbs by k
RECURSIVE DivLimbs(_, _)
DivLimbs(limbs, k) ==
    IF limbs = <<>> THEN [q |-> <<>>, r |-> 0]
    ELSE LET front == DivLimbs(SubSeq(limbs, 1, Len(limbs) - 1), k)
             t == Limb * front.r + limbs[Len(limbs)]
         IN  [q |-> Append(front.q, t \div k), r |-> t % k]

\* bits * k
MulBits(bits, k) == BitsOfLimbs(MulLimbs(LimbsOfBits(bits), k, 0))

\* quotient q and remainder r of bits by k
DivBits(bits, k) ==
    LET d == DivLimbs(LimbsOfBits(bits), k)
    IN  [q |-> BitsOfLimbs(d.q), r |-> d.r]

\* the double nearest to (bits + a fraction) * 2^e, ties to even; sticky
\* tells that the fraction is not 0
RoundToDouble(bits, e, sticky) ==
    LET n == Len(bits)
    IN  IF n <= DoubleBits
        THEN [m |-> bits \o Zeros(DoubleBits - n), e |-> e - (DoubleBits - n)]
        ELSE LET top == SubSeq(bits, 1, DoubleBits)
                 guard == bits[DoubleBits + 1]
                 rest == sticky \/ \E i \in (DoubleBits + 2)..n : bits[i] = 1
                 up == guard = 1 /\ (rest \/ top[DoubleBits] = 1)
                 inc == IF up THEN Increment(top) ELSE top
             IN  IF Len(inc) > DoubleBits
                 THEN [m |-> SubSeq(inc, 1, DoubleBits),
                       e |-> e + (n - DoubleBits) + 1]
                 ELSE [m |-> inc, e |-> e + (n - DoubleBits)]

\* float(n), n > 0
FloatOfInt(n) == RoundToDouble(Bits(n), 0, FALSE)

\* x / k
FloatDivInt(x, k) ==
    LET d == DivBits(x.m \o Zeros(ExtraBits), k)
    IN  RoundToDouble(d.q, x.e - ExtraBits, d.r # 0)

\* x * k
FloatMulInt(x, k) == RoundToDouble(MulBits(x.m, k), x.e, FALSE)

\* x < y
FloatLess(x, y) ==
    \/ x.e < y.e
    \/ /\ x.e = y.e
       /\ \E i \in 1..DoubleBits :
             /\ x.m[i] < y.m[i]
             /\ \A j \in 1..(i - 1) : x.m[j] = y.m[j]

\* the four bits of a hexadecimal digit
HexBits(h) == <<h \div 8, (h \div 4) % 2, (h \div 2) % 2, h % 2>>

\* the literal 1.3 (2474), the double 0x1.4cccccccccccdp+0
Float_1_3 ==
    [m |-> <<1>> \o HexBits(4) \o HexBits(12) \o HexBits(12) \o HexBits(12)
               \o HexBits(12) \o HexBits(12) \o HexBits(12) \o HexBits(12)
               \o HexBits(12) \o HexBits(12) \o HexBits(12) \o HexBits(12)
               \o HexBits(13),
     e |-> 0 - 52]

\* daily_per_person < estimated_min_daily * 1.3 (2474), where
\* daily_per_person = budget / num_people / num_days (2442, 2469).  When
\* the two sides differ as rationals they differ by 1 / (10 * num_people *
\* num_days) at least, far more than the roundings, and the exact
\* comparison is the one of the doubles; when they are equal the doubles
\* are computed.
\* budget / num_people / num_days < estimated_min_daily * tenths / 10 as
\* rationals, num_people * num_days # 0: the division by a negative
\* number of travellers, which nothing before 2442 excludes, turns the
\* inequality of the products round
RatioBelow(td, estimated_min_daily, tenths) ==
    LET heads == td.num_people * td.num_days
    IN  IF heads > 0
        THEN 10 * td.budget < tenths * estimated_min_daily * heads
        ELSE 10 * td.budget > tenths * estimated_min_daily * heads

BelowBudgetFriendlyLimit(td, estimated_min_daily) ==
    LET heads == td.num_people * td.num_days
    IN  IF /\ 10 * td.budget = 13 * estimated_min_daily * heads
           /\ td.budget > 0 /\ td.num_people > 0 /\ td.num_days > 0
        THEN FloatLess(FloatDivInt(FloatDivInt(FloatOfInt(td.budget),
                                               td.num_people),
                                   td.num_days),
                       FloatMulInt(Float_1_3, estimated_min_daily))
        ELSE RatioBelow(td, estimated_min_daily, 13)

\* the tier (2474-2482); estimated_min_daily * 2.5 is exact in doubles
BudgetTier(td, estimated_min_daily) ==
    IF BelowBudgetFriendlyLimit(td, estimated_min_daily)
    THEN "budget-friendly"
    ELSE IF RatioBelow(td, estimated_min_daily, 25)
    THEN "moderate"
    ELSE "luxury"

\* the locals after the except clause (2491-2495): it assigns the verdict,
\* the shortfall and the tier; estimated_min_total and surplus keep what
\* the try block gave them before the exception, which is nothing when it
\* was raised before 2446 (carried as 0) and the figures of 2446 and 2465
\* when it was raised by the division of 2487
ValidationErrorResult(td, estimated_min_daily, transport) ==
    LET early == ValidationRaisesEarly(td, transport)
        total == IF early THEN 0
                 ELSE EstimatedMinTotal_x5(estimated_min_daily, td,
                                           transport.value)
    IN  [raised |-> TRUE,
         estimated_min_daily |-> estimated_min_daily,
         transport |-> transport,
         estimated_min_total_x5 |-> total,
         is_budget_sufficient |-> TRUE,
         shortfall_x5 |-> 0,
         surplus_x5 |-> IF ~early /\ IsBudgetSufficient(td, total)
                        THEN 5 * td.budget - total ELSE 0,
         budget_tier |-> "moderate"]

\* the whole try/except; transport is the outcome of the estimator whose
\* figure is transport_cost_total; surplus is a local of the sufficient branch and
\* is carried as 0 where the code leaves it unassigned
BudgetValidation(td, research, primary, fallback) ==
    LET estimated_min_daily == EstimatedMinDaily(research.minimum_budget)
        transport == TransportOutcome(primary, fallback)
    IN  IF ValidationRaises(td, estimated_min_daily, transport)
        THEN ValidationErrorResult(td, estimated_min_daily, transport)
        ELSE LET total == EstimatedMinTotal_x5(estimated_min_daily, td,
                                                transport.value)
                 ok == IsBudgetSufficient(td, total)
             IN  [raised |-> FALSE,
                  estimated_min_daily |-> estimated_min_daily,
                  transport |-> transport,
                  estimated_min_total_x5 |-> total,
                  is_budget_sufficient |-> ok,
                  shortfall_x5 |-> IF ~ok THEN total - 5 * td.budget ELSE 0,
                  surplus_x5 |-> IF ok THEN 5 * td.budget - total ELSE 0,
                  budget_tier |-> BudgetTier(td, estimated_min_daily)]

NoFeasibility ==
    [raised |-> FALSE, estimated_min_daily |-> 0,
     transport |-> [kind |-> None, value |-> 0], estimated_min_total_x5 |-> 0, is_budget_sufficient |-> FALSE,
     shortfall_x5 |-> 0, surplus_x5 |-> 0, budget_tier |-> None]

----------------------------------------------------------------------------
(* Responses, server.py 1881-2031, 2181-2187, 2327-2332, 2640-2652, 2658 *)

\* trip_details.model_dump() read as the next request's previous_extraction
ModelDump(td) ==
    [origin_city |-> td.origin_city, destination |-> td.destination,
     num_days |-> td.num_days, num_people |-> td.num_people,
     budget |-> td.budget, start_date |-> td.start_date,
     interests |-> td.interests, original_destination |-> None,
     was_budget_insufficient |-> FALSE]

\* PlanDetails recording the destination whatever the verdict
PlanDetails_AlwaysRecords(td, is_budget_sufficient) ==
    [ModelDump(td) EXCEPT
        !.original_destination = td.destination,
        !.was_budget_insufficient = ~is_budget_sufficient]

\* extracted_details of the final response (2645-2650)
PlanDetails(td, is_budget_sufficient) ==
    [ModelDump(td) EXCEPT
        !.original_destination =
            IF ~is_budget_sufficient THEN td.destination ELSE None,
        !.was_budget_insufficient = ~is_budget_sufficient]

NoResponse ==
    [message |-> None, status |-> None, has_details |-> FALSE,
     extracted_details |-> NoPrevious, strategy |-> None, current_info |-> <<>>]

\* the canned answers to the other intents; extracted_details=None
CannedResponse(message) ==
    [message |-> message, status |-> "CANNED", has_details |-> FALSE,
     extracted_details |-> NoPrevious, strategy |-> None, current_info |-> <<>>]

ExtractionFailed ==
    [message |-> "Extraction failed", status |-> "REPHRASE",
     has_details |-> FALSE, extracted_details |-> NoPrevious,
     strategy |-> None, current_info |-> <<>>]

\* the sentinel list of the "What I know so far" lines (2306, 2308)
EchoSentinels == {"not specified", "unknown", "n/a"}

\* current_info, the fields echoed as known (2305-2317), each line
\* carried as the label of its field
CurrentInfo(td) ==
    (IF TruthyStr(td.origin_city)
        /\ Lower(td.origin_city) \notin EchoSentinels
     THEN <<"origin city">> ELSE <<>>)
    \o (IF TruthyStr(td.destination)
           /\ Lower(td.destination) \notin EchoSentinels
        THEN <<"destination">> ELSE <<>>)
    \o (IF TruthyNum(td.num_days) /\ td.num_days > 0
        THEN <<"duration">> ELSE <<>>)
    \o (IF TruthyNum(td.num_people) /\ td.num_people > 0
        THEN <<"travelers">> ELSE <<>>)
    \o (IF TruthyNum(td.budget) /\ td.budget > 0
        THEN <<"budget">> ELSE <<>>)
    \o (IF TruthyStr(td.start_date) THEN <<"start date">> ELSE <<>>)

NeedMoreInformation(td) ==
    [message |-> "Need more information", status |-> "COLLECTING",
     has_details |-> TRUE, extracted_details |-> ModelDump(td),
     strategy |-> None, current_info |-> CurrentInfo(td)]

\* PlanResponse with the standard prompt whatever the verdict
PlanResponse_AlwaysStandard(td, is_budget_sufficient) ==
    [message |-> "Trip plan generated successfully and saved!",
     status |-> IF is_budget_sufficient THEN "SUFFICIENT" ELSE "INSUFFICIENT",
     has_details |-> TRUE,
     extracted_details |-> PlanDetails(td, is_budget_sufficient),
     strategy |-> "standard",
     current_info |-> <<>>]

\* STEP 4 chooses the prompt, the final response carries the verdict
PlanResponse(td, is_budget_sufficient) ==
    [message |-> "Trip plan generated successfully and saved!",
     status |-> IF is_budget_sufficient THEN "SUFFICIENT" ELSE "INSUFFICIENT",
     has_details |-> TRUE,
     extracted_details |-> PlanDetails(td, is_budget_sufficient),
     strategy |-> IF is_budget_sufficient THEN "standard" ELSE "replanning",
     current_info |-> <<>>]

\* raise HTTPException(status_code=500) of the outer except (2654-2658)
PlanningFailed ==
    [message |-> "Planning failed", status |-> "HTTP_500",
     has_details |-> FALSE, extracted_details |-> NoPrevious,
     strategy |-> None, current_info |-> <<>>]

----------------------------------------------------------------------------
(* Inputs: what the collaborators may answer *)

\* labels the intent classifier may return; "ITINERARY" is a label
\* outside the list the prompt asks for
Intents ==
    {"TRIP_PLANNING", "MODIFICATION_REQUEST", "DESTINATION_INQUIRY",
     "RECOMMENDATION", "ADVICE", "GREETING", "OTHER", "ITINERARY"}

\* intents answered by a second model call (1867-2005)
SmartIntents ==
    {"GREETING", "DESTINATION_INQUIRY", "RECOMMENDATION", "ADVICE", "OTHER"}

TripDetailsOf(origins, dests, days, people, budgets, dates, interests) ==
    [origin_city : origins, destination : dests, num_days : days,
     num_people : people, budget : budgets, start_date : dates,
     interests : interests]

\* structured outputs of the extractor, for the merge on its own
TripDetailsValues ==
    TripDetailsOf({"Not specified", "Anywhere", "Mumbai"},
                  {"N/A", "Goa", "Ladakh"},
                  {0, 5}, {0, 1, 2}, {0, 40000, 60000},
                  {None, "Not specified", "2025-12-15"}, {None, "beaches"})

\* previous_extraction values a request may carry, for the merge on its own
PreviousExtractions ==
    {NoPrevious} \cup
    {[ModelDump(td) EXCEPT !.original_destination = o] :
        td \in TripDetailsValues, o \in {None, "Goa"}}

\* structured outputs of the extractor within a conversation
ExtractorOutputs ==
    TripDetailsOf({"Not specified", "Anywhere", "Mumbai"},
                  {"N/A", "Goa", "Ladakh"},
                  {5}, {2}, {0, 40000, 60000},
                  {"2025-12-15"}, {None})

\* a text "EXTRACTED MINIMUM: ₹n"
MarkerText(n) ==
    [nonempty |-> TRUE, marker |-> <<n>>, rupee_amounts |-> <<n>>,
     dollar_amounts |-> <<>>,
     rupee_matches |-> FindAll(<<n>>, RupeeDigits),
     dollar_matches |-> <<>>]

\* a text without the marker in which the amounts rupees are written
\* after a rupee sign and the amounts dollars after a dollar sign
AmountsText(rupees, dollars) ==
    [nonempty |-> TRUE, marker |-> <<>>, rupee_amounts |-> rupees,
     dollar_amounts |-> dollars,
     rupee_matches |-> FindAll(rupees, RupeeDigits),
     dollar_matches |-> FindAll(dollars, DollarDigits)]

\* texts get_minimum_daily_budget may return within a conversation
BudgetTexts == {MarkerText(3000), MarkerText(0)}

ResearchOf(text) ==
    [minimum_budget |-> text, travel_advisory |-> "advisory",
     weather |-> "weather", document_info |-> "documents"]

ResearchLookups ==
    {"get_minimum_daily_budget", "get_travel_advisory",
     "get_realtime_weather", "get_travel_document_info"}

\* seconds between the arrival times of requests
TickSeconds == 1800

\* longest time the four lookups take together, in seconds
LookupSeconds == 1

\* time between the clock reading of get_cached_research at time t and
\* that of cache_research; the lookups of the turns between two
\* multiples of TickSeconds take LookupSeconds at most together
LookupDurations(t) ==
    {e \in {0, LookupSeconds} : (t % TickSeconds) + e <= LookupSeconds}

\* what each of the four lookups does when it is submitted
LookupOutcomes == [ResearchLookups -> {"returns", "raises", "never_returns"}]

Returns(v) == [kind |-> "returns", value |-> v]

Raises == [kind |-> "raises", value |-> 0]

ReturnsNone == [kind |-> "returns_none", value |-> 0]

\* outcomes of estimate_transport_cost
PrimaryOutcomes == {Returns(8000), Raises, ReturnsNone}

\* outcomes of estimate_transport_fallback
FallbackOutcomes == {Returns(6000), Raises}

----------------------------------------------------------------------------
(* OTP service, otp_service.py, and its two endpoints, server.py           *)
(* 4060-4145.  Times are in seconds.                                       *)

OTP_VALIDITY_MINUTES == 10

MAX_ATTEMPTS == 3

\* expires_in of the send-otp response (server.py 4083)
ExpiresIn == 300

\* timedelta(minutes=m) in seconds
Minutes(m) == 60 * m

\* phone numbers
OtpIdentifiers == {"+911111111111", "+912222222222"}

\* codes generate_otp may draw and a caller may submit
OtpCodes == {"111111", "222222"}

\* otp_storage without the key identifier
DelOtp(storage, identifier) ==
    [k \in DOMAIN storage \ {identifier} |-> storage[k]]

\* store_otp (107-117): otp_storage[identifier] = {...}
store_otp(storage, identifier, otp, t) ==
    [k \in DOMAIN storage \cup {identifier} |->
        IF k = identifier
        THEN [otp |-> otp, method |-> "sms", created_at |-> t,
              expires_at |-> t + Minutes(OTP_VALIDITY_MINUTES),
              attempts |-> 0, verified |-> FALSE]
        ELSE storage[k]]

\* verify_otp without the test of the verified flag
verify_otp_IgnoresVerified(storage, identifier, otp, t) ==
    IF identifier \notin DOMAIN storage
    THEN [success |-> FALSE, message |-> "No OTP found", compared |-> FALSE,
          storage |-> storage]
    ELSE LET stored_data == storage[identifier]
         IN  IF t > stored_data.expires_at
             THEN [success |-> FALSE, message |-> "OTP expired",
                   compared |-> FALSE,
                   storage |-> DelOtp(storage, identifier)]
             ELSE IF stored_data.attempts >= MAX_ATTEMPTS
             THEN [success |-> FALSE, message |-> "Maximum attempts exceeded",
                   compared |-> FALSE,
                   storage |-> DelOtp(storage, identifier)]
             ELSE IF stored_data.otp = otp
             THEN [success |-> TRUE, message |-> "OTP verified successfully!",
                   compared |-> TRUE,
                   storage |-> [storage EXCEPT
                       ![identifier].attempts = @ + 1,
                       ![identifier].verified = TRUE]]
             ELSE [success |-> FALSE, message |-> "Invalid OTP",
                   compared |-> TRUE,
                   storage |-> [storage EXCEPT
                       ![identifier].attempts = @ + 1]]

\* verify_otp with ">" for ">=" in the test of the attempts
verify_otp_OneMoreAttempt(storage, identifier, otp, t) ==
    IF identifier \notin DOMAIN storage
    THEN [success |-> FALSE, message |-> "No OTP found", compared |-> FALSE,
          storage |-> storage]
    ELSE LET stored_data == storage[identifier]
         IN  IF stored_data.verified
             THEN [success |-> FALSE, message |-> "OTP already used",
                   compared |-> FALSE, storage |-> storage]
             ELSE IF t > stored_data.expires_at
             THEN [success |-> FALSE, message |-> "OTP expired",
                   compared |-> FALSE,
                   storage |-> DelOtp(storage, identifier)]
             ELSE IF stored_data.attempts > MAX_ATTEMPTS
             THEN [success |-> FALSE, message |-> "Maximum attempts exceeded",
                   compared |-> FALSE,
                   storage |-> DelOtp(storage, identifier)]
             ELSE IF stored_data.otp = otp
             THEN [success |-> TRUE, message |-> "OTP verified successfully!",
                   compared |-> TRUE,
                   storage |-> [storage EXCEPT
                       ![identifier].attempts = @ + 1,
                       ![identifier].verified = TRUE]]
             ELSE [success |-> FALSE, message |-> "Invalid OTP",
                   compared |-> TRUE,
                   storage |-> [storage EXCEPT
                       ![identifier].attempts = @ + 1]]

\* verify_otp without the test of the expiry
verify_otp_IgnoresExpiry(storage, identifier, otp, t) ==
    IF identifier \notin DOMAIN storage
    THEN [success |-> FALSE, message |-> "No OTP found", compared |-> FALSE,
          storage |-> storage]
    ELSE LET stored_data == storage[identifier]
         IN  IF stored_data.verified
             THEN [success |-> FALSE, message |-> "OTP already used",
                   compared |-> FALSE, storage |-> storage]
             ELSE IF stored_data.attempts >= MAX_ATTEMPTS
             THEN [success |-> FALSE, message |-> "Maximum attempts exceeded",
                   compared |-> FALSE,
                   storage |-> DelOtp(storage, identifier)]
             ELSE IF stored_data.otp = otp
             THEN [success |-> TRUE, message |-> "OTP verified successfully!",
                   compared |-> TRUE,
                   storage |-> [storage EXCEPT
                       ![identifier].attempts = @ + 1,
                       ![identifier].verified = TRUE]]
             ELSE [success |-> FALSE, message |-> "Invalid OTP",
                   compared |-> TRUE,
                   storage |-> [storage EXCEPT
                       ![identifier].attempts = @ + 1]]

\* verify_otp (121-171): the result, whether the code was compared with
\* the stored one, and otp_storage afterwards
verify_otp(storage, identifier, otp, t) ==
    IF identifier \notin DOMAIN storage
    THEN [success |-> FALSE, message |-> "No OTP found", compared |-> FALSE,
          storage |-> storage]
    ELSE LET stored_data == storage[identifier]
         IN  IF stored_data.verified
             THEN [success |-> FALSE, message |-> "OTP already used",
                   compared |-> FALSE, storage |-> storage]
             ELSE IF t > stored_data.expires_at
             THEN [success |-> FALSE, message |-> "OTP expired",
                   compared |-> FALSE,
                   storage |-> DelOtp(storage, identifier)]
             ELSE IF stored_data.attempts >= MAX_ATTEMPTS
             THEN [success |-> FALSE, message |-> "Maximum attempts exceeded",
                   compared |-> FALSE,
                   storage |-> DelOtp(storage, identifier)]
             ELSE IF stored_data.otp = otp
             THEN [success |-> TRUE, message |-> "OTP verified successfully!",
                   compared |-> TRUE,
                   storage |-> [storage EXCEPT
                       ![identifier].attempts = @ + 1,
                       ![identifier].verified = TRUE]]
             ELSE [success |-> FALSE, message |-> "Invalid OTP",
                   compared |-> TRUE,
                   storage |-> [storage EXCEPT
                       ![identifier].attempts = @ + 1]]

\* cleanup_expired_otps (241-253)
cleanup_expired_otps(storage, t) ==
    [k \in {key \in DOMAIN storage : ~(t > storage[key].expires_at)} |->
        storage[k]]

\* no OTP operation has returned yet
NoOtpResult ==
    [op |-> None, identifier |-> None, otp |-> None, success |-> FALSE,
     message |-> None, expires_in |-> 0, at |-> 0]

\* no OTP has been issued to the identifier
NotIssued ==
    [issued |-> FALSE, otp |-> None, issued_at |-> 0, expires_in |-> 0,
     successes |-> 0, compared |-> 0]

InitOtp ==
    /\ otp_storage = <<>>
    /\ otp_now = 0
    /\ otp_result = NoOtpResult
    /\ otp_issued = [i \in OtpIdentifiers |-> NotIssued]

\* POST /api/auth/send-otp (server.py 4060-4084, otp_service.py 174-192):
\* send_otp_via_fast2sms returns True on every path, the code is stored
SendOtp ==
    /\ \E identifier \in OtpIdentifiers, otp \in OtpCodes :
          /\ otp_storage' = store_otp(otp_storage, identifier, otp, otp_now)
          /\ otp_result' =
                 [op |-> "send_otp", identifier |-> identifier, otp |-> otp,
                  success |-> TRUE, message |-> "OTP sent successfully",
                  expires_in |-> ExpiresIn, at |-> otp_now]
          /\ otp_issued' =
                 [otp_issued EXCEPT ![identifier] =
                     [issued |-> TRUE, otp |-> otp, issued_at |-> otp_now,
                      expires_in |-> ExpiresIn,
                      successes |-> 0, compared |-> 0]]
    /\ UNCHANGED otp_now
    /\ UNCHANGED <<handler_vars, loop_vars>>

\* POST /api/auth/verify-otp (server.py 4095-4110, otp_service.py
\* 205-219) up to the result of verify_otp_simple
VerifyOtp ==
    /\ \E identifier \in OtpIdentifiers, otp \in OtpCodes :
          LET result == verify_otp(otp_storage, identifier, otp, otp_now)
          IN  /\ otp_storage' = result.storage
              /\ otp_result' =
                     [op |-> "verify_otp", identifier |-> identifier,
                      otp |-> otp, success |-> result.success,
                      message |-> result.message, expires_in |-> 0,
                      at |-> otp_now]
              /\ otp_issued' =
                     [otp_issued EXCEPT
                         ![identifier].successes =
                             IF result.success THEN @ + 1 ELSE @,
                         ![identifier].compared =
                             IF result.compared THEN @ + 1 ELSE @]
    /\ UNCHANGED otp_now
    /\ UNCHANGED <<handler_vars, loop_vars>>

\* cleanup_task (271-273), for a background scheduler to call
CleanupExpiredOtps ==
    /\ otp_storage' = cleanup_expired_otps(otp_storage, otp_now)
    /\ otp_result' =
           [op |-> "cleanup_expired_otps", identifier |-> None, otp |-> None,
            success |-> TRUE, message |-> None, expires_in |-> 0,
            at |-> otp_now]
    /\ UNCHANGED <<otp_now, otp_issued>>
    /\ UNCHANGED <<handler_vars, loop_vars>>

\* most clock advances of the OTP service
MaxOtpTicks == 4

OtpTickSeconds == 200

\* time passes
OtpTick ==
    /\ otp_now < MaxOtpTicks * OtpTickSeconds
    /\ otp_now' = otp_now + OtpTickSeconds
    /\ UNCHANGED <<otp_storage, otp_result, otp_issued>>
    /\ UNCHANGED <<handler_vars, loop_vars>>

NextOtp ==
    \/ SendOtp
    \/ VerifyOtp
    \/ CleanupExpiredOtps
    \/ OtpTick

----------------------------------------------------------------------------
(* Requests in flight together, server.py 1793, 2340-2366, 8041.           *)
(* uvicorn.run(app) serves the application on one event loop.  The handler *)
(* is a coroutine (async def) and contains no await: once the loop has     *)
(* started it, it keeps the loop until it returns or raises, also while    *)
(* run_research_parallel blocks on the results of its four threads, which  *)
(* do not touch the cache.  The requests here carry complete trip details; *)
(* each dict that run_research_parallel returns is an object of its own,   *)
(* identified by the request that made it.                                 *)

Requests == 1..MaxRequests

\* destinations of the requests in flight
LoopDestinations == {"Goa", "Ladakh"}

\* what the four lookups return; the dicts of two requests are told
\* apart by their identity, whatever they hold
LoopResearch == ResearchOf(MarkerText(3000))

\* a request that has not been sent
NoRequest ==
    [pc |-> "none", destination |-> None,
     behind |-> 0,              \* request that was waiting for its lookups
                                \* at the arrival, 0 for none
     get_at |-> 0 - 1,          \* clock reading of get_cached_research
     cached_research |-> 0,     \* object it returned, 0 for None
     research_data |-> 0,       \* object the request goes on with
     put_at |-> 0 - 1]          \* clock reading of cache_research

InitLoop ==
    /\ inflight = [r \in Requests |-> NoRequest]
    /\ running = 0
    /\ cache_object = <<>>

\* the variables of the single turn, which these requests leave alone
turn_vars == <<pc, session, turns, previous_extraction, intent, fresh,
               trip_details, missing_fields, research_data, feasibility,
               response, calls>>

\* the loop runs the coroutine of r: r holds the loop, or the loop is
\* free and r has arrived and not finished
Runs(r) ==
    \/ running = r
    \/ running = 0 /\ inflight[r].pc \in {"queued", "lookups", "cache",
                                           "validation"}

\* a client sends request r, whatever the loop is doing
Arrive(r) ==
    /\ inflight[r].pc = "none"
    /\ \A q \in Requests : q < r => inflight[q].pc # "none"
    /\ \E d \in LoopDestinations :
          inflight' = [inflight EXCEPT ![r] =
              [@ EXCEPT !.pc = "queued", !.destination = d,
                        !.behind =
                            IF \E q \in Requests : inflight[q].pc = "lookups"
                            THEN CHOOSE q \in Requests :
                                     inflight[q].pc = "lookups"
                            ELSE 0]]
    /\ UNCHANGED <<running, cache_object, research_cache,
                   research_cache_timestamps, now, ticks, turn_vars>>
    /\ UNCHANGED otp_vars

\* the loop starts the handler of r, which comes to the cache (2340-2343)
GetCachedResearch(r) ==
    /\ inflight[r].pc = "queued"
    /\ Runs(r)
    /\ LET d == inflight[r].destination
           cached == get_cached_research(research_cache,
                         research_cache_timestamps, d, now)
       IN  inflight' = [inflight EXCEPT ![r] =
               IF cached # NoResearch
               THEN [@ EXCEPT !.pc = "validation", !.get_at = now,
                              !.cached_research = cache_object[d],
                              !.research_data = cache_object[d]]
               ELSE [@ EXCEPT !.pc = "lookups", !.get_at = now]]
    /\ running' = r
    /\ UNCHANGED <<cache_object, research_cache, research_cache_timestamps,
                   now, ticks, turn_vars>>
    /\ UNCHANGED otp_vars

\* run_research_parallel with an await: the coroutine gives up the loop
\* while the four lookups run
RunResearchParallel_Awaited(r) ==
    /\ inflight[r].pc = "lookups"
    /\ Runs(r)
    /\ \E outcome \in {"returns", "raises", "never_returns"} :
          IF outcome = "never_returns"
          THEN /\ inflight' = [inflight EXCEPT ![r].pc = "waiting"]
               /\ running' = 0
          ELSE IF outcome = "raises"
          THEN /\ inflight' = [inflight EXCEPT ![r].pc = "done"]
               /\ running' = 0
          ELSE /\ inflight' = [inflight EXCEPT ![r].pc = "cache",
                                               ![r].research_data = r]
               /\ running' = 0
    /\ UNCHANGED <<cache_object, research_cache, research_cache_timestamps,
                   now, ticks, turn_vars>>
    /\ UNCHANGED otp_vars

\* run_research_parallel (2351-2365): the thread of the loop waits for the
\* four results; a lookup that raises ends the request with HTTP 500 and
\* one that never returns keeps the loop for good
RunResearchParallel(r) ==
    /\ inflight[r].pc = "lookups"
    /\ Runs(r)
    /\ \E outcome \in {"returns", "raises", "never_returns"} :
          IF outcome = "never_returns"
          THEN /\ inflight' = [inflight EXCEPT ![r].pc = "waiting"]
               /\ running' = r
          ELSE IF outcome = "raises"
          THEN /\ inflight' = [inflight EXCEPT ![r].pc = "done"]
               /\ running' = 0
          ELSE /\ inflight' = [inflight EXCEPT ![r].pc = "cache",
                                               ![r].research_data = r]
               /\ running' = r
    /\ UNCHANGED <<cache_object, research_cache, research_cache_timestamps,
                   now, ticks, turn_vars>>
    /\ UNCHANGED otp_vars

\* cache_research (2366, 391-394)
CacheResearch(r) ==
    /\ inflight[r].pc = "cache"
    /\ Runs(r)
    /\ LET d == inflight[r].destination
       IN  /\ research_cache' =
                  cache_research_data(research_cache, d, LoopResearch)
           /\ research_cache_timestamps' =
                  cache_research_time(research_cache_timestamps, d, now)
           /\ cache_object' =
                  [k \in DOMAIN cache_object \cup {d} |->
                      IF k = d THEN inflight[r].research_data
                      ELSE cache_object[k]]
    /\ inflight' = [inflight EXCEPT ![r].pc = "validation",
                                    ![r].put_at = now]
    /\ running' = r
    /\ UNCHANGED <<now, ticks, turn_vars>>
    /\ UNCHANGED otp_vars

\* the rest of the handler (2372-2658), which reads research_data and
\* does not go to the cache; the coroutine returns and the loop is free
Respond(r) ==
    /\ inflight[r].pc = "validation"
    /\ Runs(r)
    /\ inflight' = [inflight EXCEPT ![r].pc = "done"]
    /\ running' = 0
    /\ UNCHANGED <<cache_object, research_cache, research_cache_timestamps,
                   now, ticks, turn_vars>>
    /\ UNCHANGED otp_vars

\* the clock comes to the next multiple of TickSeconds, whatever the loop
\* is doing: also between the clock readings of get_cached_research and
\* cache_research of one request, while its lookups run
LoopTick ==
    /\ ticks < MaxTicks
    /\ now' = (now \div TickSeconds + 1) * TickSeconds
    /\ ticks' = ticks + 1
    /\ UNCHANGED <<research_cache, research_cache_timestamps, turn_vars>>
    /\ UNCHANGED <<otp_vars, loop_vars>>

NextLoop ==
    \/ \E r \in Requests : Arrive(r)
    \/ \E r \in Requests : GetCachedResearch(r)
    \/ \E r \in Requests : RunResearchParallel(r)
    \/ \E r \in Requests : CacheResearch(r)
    \/ \E r \in Requests : Respond(r)
    \/ LoopTick

----------------------------------------------------------------------------
(* The turn, server.py 1793-2658, one action per step of the handler *)

Init ==
    /\ pc = "idle"
    /\ session = NoPrevious
    /\ turns = 0
    /\ previous_extraction = NoPrevious
    /\ intent = None
    /\ fresh = NoDetails
    /\ trip_details = NoDetails
    /\ missing_fields = <<>>
    /\ research_cache = <<>>
    /\ research_cache_timestamps = <<>>
    /\ now = 0
    /\ ticks = 0
    /\ research_data = NoResearch
    /\ feasibility = NoFeasibility
    /\ response = NoResponse
    /\ calls = {}
    /\ InitOtp
    /\ InitLoop

\* the caller posts a prompt with the slots it holds, or with none
Request ==
    /\ pc = "idle"
    /\ turns < MaxTurns
    /\ \E p \in {session, NoPrevious} : previous_extraction' = p
    /\ pc' = "intent"
    /\ UNCHANGED <<session, turns, intent, fresh, trip_details,
                   missing_fields, research_cache, research_cache_timestamps,
                   now, ticks, research_data, feasibility, response, calls>>
    /\ UNCHANGED <<otp_vars, loop_vars>>

\* STEP 0 and the canned branches (1848-2031)
ClassifyIntent ==
    /\ pc = "intent"
    /\ \E outcome \in {Returns(i) : i \in Intents} \cup {Raises},
          smart \in {"returns", "raises"} :
          IF outcome.kind = "raises"
          THEN /\ intent' = None
               /\ response' = PlanningFailed
               /\ calls' = calls \cup {"intent_llm"}
               /\ pc' = "done"
          ELSE /\ intent' = outcome.value
               /\ IF outcome.value \in SmartIntents
                  THEN /\ calls' = calls \cup {"intent_llm", "smart_llm"}
                       /\ response' = IF smart = "raises" THEN PlanningFailed
                                      ELSE CannedResponse(outcome.value)
                       /\ pc' = "done"
                  ELSE IF outcome.value = "MODIFICATION_REQUEST"
                  THEN /\ calls' = calls \cup {"intent_llm"}
                       /\ response' =
                              CannedResponse("Cannot modify plan without context")
                       /\ pc' = "done"
                  ELSE /\ calls' = calls \cup {"intent_llm"}
                       /\ response' = response
                       /\ pc' = "extract"
    /\ UNCHANGED <<session, turns, previous_extraction, fresh, trip_details,
                   missing_fields, research_cache, research_cache_timestamps,
                   now, ticks, research_data, feasibility>>
    /\ UNCHANGED <<otp_vars, loop_vars>>

\* Extract without the try/except around the call: a failure of the
\* extractor reaches the outer handler
Extract_Propagates ==
    /\ pc = "extract"
    /\ calls' = calls \cup {"extractor_llm"}
    /\ \/ /\ \E td \in ExtractorOutputs : fresh' = td
          /\ pc' = "merge"
          /\ UNCHANGED response
       \/ /\ response' = PlanningFailed
          /\ pc' = "done"
          /\ UNCHANGED fresh
    /\ UNCHANGED <<session, turns, previous_extraction, intent, trip_details,
                   missing_fields, research_cache, research_cache_timestamps,
                   now, ticks, research_data, feasibility>>
    /\ UNCHANGED <<otp_vars, loop_vars>>

\* STEP 1, the extractor call (2173-2187)
Extract ==
    /\ pc = "extract"
    /\ calls' = calls \cup {"extractor_llm"}
    /\ \/ /\ \E td \in ExtractorOutputs : fresh' = td
          /\ pc' = "merge"
          /\ UNCHANGED response
       \/ /\ response' = ExtractionFailed
          /\ pc' = "done"
          /\ UNCHANGED fresh
    /\ UNCHANGED <<session, turns, previous_extraction, intent, trip_details,
                   missing_fields, research_cache, research_cache_timestamps,
                   now, ticks, research_data, feasibility>>
    /\ UNCHANGED <<otp_vars, loop_vars>>

\* MergeAndValidate with the cache lookup moved above the validation
MergeAndValidate_LooksUpFirst ==
    /\ pc = "merge"
    /\ LET td == Merge(previous_extraction, fresh)
           missing == MissingFields(td)
       IN  /\ trip_details' = td
           /\ missing_fields' = missing
           /\ calls' = calls \cup {"get_cached_research"}
           /\ IF missing # <<>>
              THEN /\ response' = NeedMoreInformation(td)
                   /\ pc' = "done"
              ELSE /\ response' = response
                   /\ pc' = "research"
    /\ UNCHANGED <<session, turns, previous_extraction, intent, fresh,
                   research_cache, research_cache_timestamps, now, ticks,
                   research_data, feasibility>>
    /\ UNCHANGED <<otp_vars, loop_vars>>

\* the merge and the required-field validation (2189-2332)
MergeAndValidate ==
    /\ pc = "merge"
    /\ LET td == Merge(previous_extraction, fresh)
           missing == MissingFields(td)
       IN  /\ trip_details' = td
           /\ missing_fields' = missing
           /\ IF missing # <<>>
              THEN /\ response' = NeedMoreInformation(td)
                   /\ pc' = "done"
              ELSE /\ response' = response
                   /\ pc' = "research"
    /\ UNCHANGED <<session, turns, previous_extraction, intent, fresh,
                   research_cache, research_cache_timestamps, now, ticks,
                   research_data, feasibility, calls>>
    /\ UNCHANGED <<otp_vars, loop_vars>>

\* STEP 2, the cache lookup and the four parallel lookups (2340-2366).
\* Each lookup returns, raises or never returns.  result()
\* is called without a timeout and the executor's with-block waits for
\* every worker on exit, so one hung lookup keeps the handler in
\* run_research_parallel: pc stays "waiting".  The clock is read twice,
\* by get_cached_research (384) before the lookups and by cache_research
\* (394) after them: the entry is stamped with the later time.
Research ==
    /\ pc = "research"
    /\ LET cached == get_cached_research(research_cache,
                         research_cache_timestamps, trip_details.destination,
                         now)
       IN  IF cached # NoResearch
           THEN /\ research_data' = cached
                /\ calls' = calls \cup {"get_cached_research"}
                /\ pc' = "feasibility"
                /\ UNCHANGED <<research_cache, research_cache_timestamps,
                               response, now>>
           ELSE \E text \in BudgetTexts, outcome \in LookupOutcomes,
                   elapsed \in LookupDurations(now) :
                IF \E l \in ResearchLookups : outcome[l] = "never_returns"
                THEN /\ calls' = calls \cup {"get_cached_research"}
                                       \cup ResearchLookups
                     /\ pc' = "waiting"
                     /\ UNCHANGED <<research_data, research_cache,
                                    research_cache_timestamps, response, now>>
                ELSE IF \E l \in ResearchLookups : outcome[l] = "raises"
                THEN /\ calls' = calls \cup {"get_cached_research"}
                                       \cup ResearchLookups
                     /\ response' = PlanningFailed
                     /\ pc' = "done"
                     /\ now' = now + elapsed
                     /\ UNCHANGED <<research_data, research_cache,
                                    research_cache_timestamps>>
                ELSE /\ research_data' = ResearchOf(text)
                     /\ now' = now + elapsed
                     /\ research_cache' =
                            cache_research_data(research_cache,
                                trip_details.destination, ResearchOf(text))
                     /\ research_cache_timestamps' =
                            cache_research_time(research_cache_timestamps,
                                trip_details.destination, now')
                     /\ calls' = calls \cup {"get_cached_research",
                                             "cache_research"}
                                       \cup ResearchLookups
                     /\ response' = response
                     /\ pc' = "feasibility"
    /\ UNCHANGED <<session, turns, previous_extraction, intent, fresh,
                   trip_details, missing_fields, ticks, feasibility>>
    /\ UNCHANGED <<otp_vars, loop_vars>>

\* collaborators STEP 3 calls for the given outcome of the primary estimator
TransportCalls(primary) ==
    IF primary.kind = "raises"
    THEN {"estimate_transport_cost", "estimate_transport_fallback"}
    ELSE {"estimate_transport_cost"}

\* STEP 3, budget validation and tier (2388-2495)
ValidateBudget ==
    /\ pc = "feasibility"
    /\ \E primary \in PrimaryOutcomes, fallback \in FallbackOutcomes :
          /\ feasibility' = BudgetValidation(trip_details, research_data,
                                             primary, fallback)
          /\ calls' = calls \cup TransportCalls(primary)
    /\ pc' = "plan"
    /\ UNCHANGED <<session, turns, previous_extraction, intent, fresh,
                   trip_details, missing_fields, research_cache,
                   research_cache_timestamps, now, ticks, research_data,
                   response>>
    /\ UNCHANGED <<otp_vars, loop_vars>>

\* create_standard_planning_prompt divides the budget by num_days and by
\* num_days * num_people (482-483): ZeroDivisionError when either is 0
StandardPromptRaises(td) ==
    \/ td.num_days = 0
    \/ td.num_people = 0

\* STEP 4 and 5 and the final response (2525-2658); an exception of the
\* prompt builder reaches the outer except before the agent is created
Plan ==
    /\ pc = "plan"
    /\ IF /\ feasibility.is_budget_sufficient
          /\ StandardPromptRaises(trip_details)
       THEN /\ calls' = calls
            /\ response' = PlanningFailed
       ELSE /\ calls' = calls \cup {"agent_executor"}
            /\ \E agent \in {"returns", "raises"} :
                  response' = IF agent = "raises" THEN PlanningFailed
                              ELSE PlanResponse(trip_details,
                                       feasibility.is_budget_sufficient)
    /\ pc' = "done"
    /\ UNCHANGED <<session, turns, previous_extraction, intent, fresh,
                   trip_details, missing_fields, research_cache,
                   research_cache_timestamps, now, ticks, research_data,
                   feasibility>>
    /\ UNCHANGED <<otp_vars, loop_vars>>

\* the handler returns; the caller keeps the slots of the response for its
\* next request
Return ==
    /\ pc = "done"
    /\ session' = IF response.has_details THEN response.extracted_details
                  ELSE session
    /\ turns' = turns + 1
    /\ pc' = "idle"
    /\ previous_extraction' = NoPrevious
    /\ intent' = None
    /\ fresh' = NoDetails
    /\ trip_details' = NoDetails
    /\ missing_fields' = <<>>
    /\ research_data' = NoResearch
    /\ feasibility' = NoFeasibility
    /\ response' = NoResponse
    /\ calls' = {}
    /\ UNCHANGED <<research_cache, research_cache_timestamps, now, ticks>>
    /\ UNCHANGED <<otp_vars, loop_vars>>

\* time passes between requests: the next one arrives at the next
\* multiple of TickSeconds
Tick ==
    /\ pc = "idle"
    /\ ticks < MaxTicks
    /\ now' = (now \div TickSeconds + 1) * TickSeconds
    /\ ticks' = ticks + 1
    /\ UNCHANGED <<pc, session, turns, previous_extraction, intent, fresh,
                   trip_details, missing_fields, research_cache,
                   research_cache_timestamps, research_data, feasibility,
                   response, calls>>
    /\ UNCHANGED <<otp_vars, loop_vars>>

Next ==
    \/ Request
    \/ ClassifyIntent
    \/ Extract
    \/ MergeAndValidate
    \/ Research
    \/ ValidateBudget
    \/ Plan
    \/ Return
    \/ Tick

Spec == Init /\ [][Next]_vars

----------------------------------------------------------------------------
(* The merge and the validation on their own: a request whose extraction   *)
(* has just succeeded, for every previous_extraction and every extraction  *)

InitMerge ==
    /\ pc = "merge"
    /\ session = NoPrevious
    /\ turns = 0
    /\ previous_extraction \in PreviousExtractions
    /\ intent = "TRIP_PLANNING"
    /\ fresh \in TripDetailsValues
    /\ trip_details = NoDetails
    /\ missing_fields = <<>>
    /\ research_cache = <<>>
    /\ research_cache_timestamps = <<>>
    /\ now = 0
    /\ ticks = 0
    /\ research_data = NoResearch
    /\ feasibility = NoFeasibility
    /\ response = NoResponse
    /\ calls = {"intent_llm", "extractor_llm"}
    /\ InitOtp
    /\ InitLoop

NextMerge == MergeAndValidate

SpecMerge == InitMerge /\ [][NextMerge]_vars

----------------------------------------------------------------------------
(* The budget validation on its own: a request whose slots are complete    *)
(* and whose research data is at hand, for every text and every amount     *)

\* texts get_minimum_daily_budget may return; 1.3 times 1162 is no double
ResearchTexts ==
    {MarkerText(3000), MarkerText(0), MarkerText(1162), EmptyText,
     AmountsText(<<500, 9000>>, <<>>), AmountsText(<<500>>, <<50>>),
     AmountsText(<<>>, <<50, 5>>)}

\* complete trip details; 7553 for one person and five days is 1.3 times
\* the daily minimum 1162; the number of travellers is not validated
CompleteDetails ==
    TripDetailsOf({"Mumbai"}, {"Goa"}, {1, 5}, {0 - 1, 0, 1, 2},
                  {1000, 7553, 10000, 39000, 40000, 44000, 50000, 75000},
                  {"2025-12-15"}, {None})

InitFeasibility ==
    /\ pc = "feasibility"
    /\ session = NoPrevious
    /\ turns = 0
    /\ previous_extraction = NoPrevious
    /\ intent = "TRIP_PLANNING"
    /\ fresh \in CompleteDetails
    /\ trip_details = fresh
    /\ missing_fields = <<>>
    /\ research_data \in {ResearchOf(t) : t \in ResearchTexts}
    /\ research_cache = [d \in {fresh.destination} |-> research_data]
    /\ research_cache_timestamps = [d \in {fresh.destination} |-> 0]
    /\ now = 0
    /\ ticks = 0
    /\ feasibility = NoFeasibility
    /\ response = NoResponse
    /\ calls = {"intent_llm", "extractor_llm", "get_cached_research"}
    /\ InitOtp
    /\ InitLoop

NextFeasibility ==
    \/ ValidateBudget
    \/ Plan

SpecFeasibility == InitFeasibility /\ [][NextFeasibility]_vars

----------------------------------------------------------------------------
(* The research step onwards: a request whose slots are complete, for      *)
(* every spelling of the destination and every age of a cache entry        *)

\* destinations as the extractor may spell them
CacheDestinations == {"Goa", "goa", "GOA", "Goa, India"}

\* age in seconds, at the time of the request, of the entry in the cache
InsertionAges == {0, RESEARCH_CACHE_DURATION_SECONDS - 1,
                  RESEARCH_CACHE_DURATION_SECONDS}

ResearchRequests ==
    TripDetailsOf({"Mumbai"}, CacheDestinations, {5}, {2}, {40000, 60000},
                  {"2025-12-15"}, {None})

InitResearch ==
    /\ pc = "research"
    /\ session = NoPrevious
    /\ turns = 0
    /\ previous_extraction = NoPrevious
    /\ intent = "TRIP_PLANNING"
    /\ fresh \in ResearchRequests
    /\ trip_details = fresh
    /\ missing_fields = <<>>
    /\ now = RESEARCH_CACHE_DURATION_SECONDS
    /\ ticks = 0
    /\ \E k \in CacheDestinations, age \in InsertionAges,
          present \in BOOLEAN :
          /\ research_cache =
                 IF present
                 THEN cache_research_data(<<>>, k, ResearchOf(MarkerText(3000)))
                 ELSE <<>>
          /\ research_cache_timestamps =
                 IF present
                 THEN cache_research_time(<<>>, k, now - age)
                 ELSE <<>>
    /\ research_data = NoResearch
    /\ feasibility = NoFeasibility
    /\ response = NoResponse
    /\ calls = {"intent_llm", "extractor_llm"}
    /\ InitOtp
    /\ InitLoop

NextResearch ==
    \/ Research
    \/ ValidateBudget
    \/ Plan

SpecResearch == InitResearch /\ [][NextResearch]_vars

\* the handler runs to its end unless it is blocked: every step that is
\* enabled is eventually taken
SpecResearchFair == SpecResearch /\ WF_vars(NextResearch)

----------------------------------------------------------------------------
(* The parse of the research text on its own: a request whose slots are    *)
(* complete, for every text made of a marker or of a few amounts           *)

\* most amounts of one currency written in a text
MaxAmounts == 2

\* amounts written after a rupee sign
RupeeAmounts == {500, 1000, 9000, 15000, 15001, 150000}

\* amounts written after a dollar sign
DollarAmounts == {5, 10, 50, 200, 201}

\* amounts written after EXTRACTED MINIMUM
MarkerAmounts == {0, 3000, 99999}

\* the lists of at most n elements of S
SeqsUpTo(S, n) == UNION {[1..k -> S] : k \in 0..n}

\* texts get_minimum_daily_budget may return
ParserTexts ==
    {EmptyText}
    \cup {MarkerText(n) : n \in MarkerAmounts}
    \cup {AmountsText(r, d) : r \in SeqsUpTo(RupeeAmounts, MaxAmounts),
                              d \in SeqsUpTo(DollarAmounts, MaxAmounts)}

InitParser ==
    /\ pc = "feasibility"
    /\ session = NoPrevious
    /\ turns = 0
    /\ previous_extraction = NoPrevious
    /\ intent = "TRIP_PLANNING"
    /\ fresh \in TripDetailsOf({"Mumbai"}, {"Goa"}, {5}, {2}, {40000},
                               {"2025-12-15"}, {None})
    /\ trip_details = fresh
    /\ missing_fields = <<>>
    /\ research_data \in {ResearchOf(t) : t \in ParserTexts}
    /\ research_cache = [d \in {fresh.destination} |-> research_data]
    /\ research_cache_timestamps = [d \in {fresh.destination} |-> 0]
    /\ now = 0
    /\ ticks = 0
    /\ feasibility = NoFeasibility
    /\ response = NoResponse
    /\ calls = {"intent_llm", "extractor_llm", "get_cached_research"}
    /\ InitOtp
    /\ InitLoop

NextParser ==
    \/ ValidateBudget
    \/ Plan

SpecParser == InitParser /\ [][NextParser]_vars

----------------------------------------------------------------------------
(* The OTP service on its own *)

SpecOtp == Init /\ [][NextOtp]_vars

----------------------------------------------------------------------------
(* Requests in flight together on the event loop *)

SpecLoop == Init /\ [][NextLoop]_vars

----------------------------------------------------------------------------
(* The sentinel rule of the data model, used to state the properties *)

Sentinels == {"not specified", "unknown", "n/a", "", "anywhere"}

\* a string field is known iff it is present and no sentinel, whatever
\* its letter case
KnownStr(s) == s # None /\ Lower(s) \notin Sentinels

\* a numeric field is known iff it is positive
KnownNum(n) == n > 0

\* the merge of this turn has been done
AfterMerge == trip_details # NoDetails

\* the merge of this turn combined two slot sets
Merged == AfterMerge /\ previous_extraction # NoPrevious

\* the freshly extracted slot set states nothing
StatesNothing(new) ==
    /\ ~KnownStr(new.origin_city)
    /\ ~KnownStr(new.destination)
    /\ ~KnownNum(new.num_days)
    /\ new.num_people = 1
    /\ ~KnownNum(new.budget)
    /\ ~KnownStr(new.start_date)
    /\ ~KnownStr(new.interests)

\* a string field of the result carries what the field a carried: the
\* same value when a is known, some unknown value when a is unknown
SameStr(a, b) == IF KnownStr(a) THEN b = a ELSE ~KnownStr(b)

SameNum(a, b) == IF KnownNum(a) THEN b = a ELSE ~KnownNum(b)

\* new budget known and strictly greater than the prior known budget,
\* with an original destination recorded
BudgetIncreaseEvent ==
    /\ KnownNum(fresh.budget)
    /\ KnownNum(previous_extraction.budget)
    /\ fresh.budget > previous_extraction.budget
    /\ previous_extraction.original_destination \notin {None, ""}

\* merge precedence for a string field
PrecedenceStr(old, new, merged) ==
    /\ KnownStr(new) => merged = new
    /\ ~KnownStr(new) /\ KnownStr(old) => merged = old
    /\ ~KnownStr(new) /\ ~KnownStr(old) => ~KnownStr(merged)

\* merge precedence for a numeric field
PrecedenceNum(old, new, merged) ==
    /\ KnownNum(new) => merged = new
    /\ ~KnownNum(new) /\ KnownNum(old) => merged = old
    /\ ~KnownNum(new) /\ ~KnownNum(old) => ~KnownNum(merged)

----------------------------------------------------------------------------
(* Properties of the merge and of the validation, under SpecMerge *)

\* C1: a field (origin_city, destination, num_days, budget, start_date,
\* interests) that is known in the prior slots, by the sentinel rule, is
\* still known in the merged slots.
C1_KnownStaysKnown ==
    Merged =>
        /\ KnownStr(previous_extraction.origin_city)
              => KnownStr(trip_details.origin_city)
        /\ KnownStr(previous_extraction.destination)
              => KnownStr(trip_details.destination)
        /\ KnownNum(previous_extraction.num_days)
              => KnownNum(trip_details.num_days)
        /\ KnownNum(previous_extraction.budget)
              => KnownNum(trip_details.budget)
        /\ KnownStr(previous_extraction.start_date)
              => KnownStr(trip_details.start_date)
        /\ KnownStr(previous_extraction.interests)
              => KnownStr(trip_details.interests)

\* C2: merging prior slots A with an extraction that states nothing
\* (every string a sentinel, every numeric unknown, num_people at its
\* default 1) gives A back in every field, num_people included; an unknown
\* field of A may come back as another unknown value.
C2_MergeIdempotent ==
    Merged /\ StatesNothing(fresh) =>
        /\ SameStr(previous_extraction.origin_city, trip_details.origin_city)
        /\ SameStr(previous_extraction.destination, trip_details.destination)
        /\ SameNum(previous_extraction.num_days, trip_details.num_days)
        /\ KnownNum(previous_extraction.num_people)
               => trip_details.num_people = previous_extraction.num_people
        /\ SameNum(previous_extraction.budget, trip_details.budget)
        /\ SameStr(previous_extraction.start_date, trip_details.start_date)
        /\ SameStr(previous_extraction.interests, trip_details.interests)

\* C3: for every field other than budget, a known fresh value is the
\* merged value, an unknown fresh value leaves a known prior value in
\* place, and two unknown values merge to an unknown value.  The
\* destination is left out of the rule in a budget-increase event, where
\* the original destination replaces it.
C3_MergePrecedence ==
    Merged =>
        /\ PrecedenceStr(previous_extraction.origin_city, fresh.origin_city,
                         trip_details.origin_city)
        /\ ~BudgetIncreaseEvent =>
               PrecedenceStr(previous_extraction.destination,
                             fresh.destination, trip_details.destination)
        /\ PrecedenceNum(previous_extraction.num_days, fresh.num_days,
                         trip_details.num_days)
        /\ PrecedenceNum(previous_extraction.num_people, fresh.num_people,
                         trip_details.num_people)
        /\ PrecedenceStr(previous_extraction.start_date, fresh.start_date,
                         trip_details.start_date)
        /\ PrecedenceStr(previous_extraction.interests, fresh.interests,
                         trip_details.interests)

\* C4: in a budget-increase event (new budget known and strictly greater
\* than the prior known budget, original destination recorded) the merged
\* slots carry the new budget and the recorded original destination,
\* whatever destination either side carried, and the slots returned when
\* the turn stops at the validation carry no original destination; in
\* every other merge the destination is one of the two destinations merged.
C4_BudgetIncreaseRestores ==
    Merged =>
        /\ BudgetIncreaseEvent =>
              /\ trip_details.budget = fresh.budget
              /\ trip_details.destination =
                     previous_extraction.original_destination
              /\ pc = "done" =>
                     response.extracted_details.original_destination = None
        /\ ~BudgetIncreaseEvent =>
              trip_details.destination \in
                  {fresh.destination, previous_extraction.destination}

\* prior budget 40000 for Ladakh with Goa recorded, new budget 60000:
\* the merge has put Goa back
C4_Witness ==
    /\ Merged
    /\ previous_extraction.budget = 40000
    /\ previous_extraction.destination = "Ladakh"
    /\ previous_extraction.original_destination = "Goa"
    /\ fresh.budget = 60000
    /\ fresh.destination = "Ladakh"
    /\ trip_details.destination = "Goa"
    /\ trip_details.budget = 60000

\* labels of the required fields that are unknown by the sentinel rule
UnknownRequired(td) ==
    {l \in {"origin city", "destination", "duration", "budget", "start date"} :
        \/ l = "origin city" /\ ~KnownStr(td.origin_city)
        \/ l = "destination" /\ ~KnownStr(td.destination)
        \/ l = "duration" /\ ~KnownNum(td.num_days)
        \/ l = "budget" /\ ~KnownNum(td.budget)
        \/ l = "start date" /\ ~KnownStr(td.start_date)}

\* C5: the fields reported missing are exactly the required fields
\* (origin city, destination, duration, budget, start date) that are
\* unknown by the sentinel rule, each once; the number of travellers is
\* never among them; the turn goes on to the research iff none is missing
\* and otherwise ends with the request for more information.
C5_MissingExactlyUnknownRequired ==
    AfterMerge =>
        /\ {missing_fields[i] : i \in DOMAIN missing_fields}
               = UnknownRequired(trip_details)
        /\ Len(missing_fields) = Cardinality(UnknownRequired(trip_details))
        /\ (missing_fields = <<>>) <=> (pc = "research")
        /\ (missing_fields # <<>>) <=>
               (pc = "done" /\ response.status = "COLLECTING")

\* labels of the required fields the completeness check takes for
\* unknown: the start date by its truthiness alone
UnknownButStartDate(td) ==
    (UnknownRequired(td) \ {"start date"})
    \cup (IF td.start_date = None \/ td.start_date = ""
          THEN {"start date"} ELSE {})

\* the fields reported missing are those of C5 but for the start date,
\* which is reported only when it is None or empty
MissingButSentinelStartDate ==
    AfterMerge =>
        /\ {missing_fields[i] : i \in DOMAIN missing_fields}
               = UnknownButStartDate(trip_details)
        /\ Len(missing_fields) = Cardinality(UnknownButStartDate(trip_details))
        /\ (missing_fields = <<>>) <=> (pc = "research")

\* slots whose only unknown field is a start date of "Not specified" have
\* gone on to the research
SentinelStartDateProceeds ==
    /\ AfterMerge
    /\ pc = "research"
    /\ trip_details.start_date = "Not specified"
    /\ UnknownRequired(trip_details) = {"start date"}

----------------------------------------------------------------------------
(* Properties of the turn, under Spec *)

\* collaborators that look up or estimate costs
CostCalls ==
    {"get_cached_research", "cache_research", "estimate_transport_cost",
     "estimate_transport_fallback"} \cup ResearchLookups

\* C6: a turn that ends with the request for more information has made no
\* cost lookup: it has neither read nor written the research cache, issued
\* none of the four research lookups and called neither transport
\* estimator.
C6_NoCostLookupWhileCollecting ==
    pc = "done" /\ response.status = "COLLECTING" => calls \cap CostCalls = {}

\* a follow-up turn stops at the validation while the cache already holds
\* the research of an earlier turn
C6_Witness ==
    /\ pc = "done"
    /\ response.status = "COLLECTING"
    /\ previous_extraction # NoPrevious
    /\ DOMAIN research_cache # {}
    /\ calls = {"intent_llm", "extractor_llm"}

\* C7: a turn whose extraction succeeded ends in one of COLLECTING,
\* SUFFICIENT, INSUFFICIENT, and it ends SUFFICIENT or INSUFFICIENT only
\* when no field was missing and the verdict was computed by the
\* feasibility step of the same turn.
C7_TurnEndsInOneOfThree ==
    pc = "done" /\ fresh # NoDetails =>
        /\ response.status \in {"COLLECTING", "SUFFICIENT", "INSUFFICIENT"}
        /\ response.status \in {"SUFFICIENT", "INSUFFICIENT"} =>
              /\ missing_fields = <<>>
              /\ feasibility # NoFeasibility
              /\ ~feasibility.raised

\* C10: the slots a turn returns carry an original destination iff the
\* turn ended INSUFFICIENT, and then it is the destination of the turn; a
\* SUFFICIENT or COLLECTING turn returns none.
C10_OriginalDestinationIffInsufficient ==
    pc = "done" /\ response.has_details =>
        /\ (response.status = "INSUFFICIENT")
               <=> (response.extracted_details.original_destination # None)
        /\ response.status = "INSUFFICIENT" =>
              /\ response.extracted_details.original_destination
                     = trip_details.destination
              /\ response.extracted_details.destination
                     = trip_details.destination
        /\ response.status \in {"SUFFICIENT", "COLLECTING"} =>
              response.extracted_details.original_destination = None

\* an INSUFFICIENT turn for Goa returns Goa as the original destination
C10_Witness ==
    /\ pc = "done"
    /\ response.status = "INSUFFICIENT"
    /\ trip_details.destination = "Goa"
    /\ response.extracted_details.original_destination = "Goa"

----------------------------------------------------------------------------
(* Properties of the budget validation, under SpecFeasibility *)

\* the budget validation of this turn has been done
AfterValidation == pc \in {"plan", "done"} /\ feasibility # NoFeasibility

Max0(n) == IF n > 0 THEN n ELSE 0

\* required_total of the formula, times five, for the daily minimum and
\* the transport figure of this turn
RequiredTotal_x5 ==
    6 * (feasibility.estimated_min_daily * trip_details.num_days
         * trip_details.num_people)
    + 5 * feasibility.transport.value

\* the four equations of the formula
FormulaHolds ==
    /\ feasibility.is_budget_sufficient
           <=> (5 * trip_details.budget >= RequiredTotal_x5)
    /\ feasibility.shortfall_x5
           = Max0(RequiredTotal_x5 - 5 * trip_details.budget)
    /\ feasibility.surplus_x5
           = Max0(5 * trip_details.budget - RequiredTotal_x5)
    /\ ~(feasibility.shortfall_x5 > 0 /\ feasibility.surplus_x5 > 0)

\* C8: for all inputs for which an estimator returned the transport
\* figure, required_total = daily minimum * days * people * 1.2 +
\* transport, is_sufficient iff budget >= required_total, shortfall =
\* max(0, required_total - budget), surplus = max(0, budget -
\* required_total), and the two are never both positive.
C8_FeasibilityFormula ==
    AfterValidation /\ feasibility.transport.kind = "returns" => FormulaHolds

\* the formula holds whenever the try block completes
FormulaHoldsWhenNothingRaises ==
    AfterValidation /\ ~feasibility.raised => FormulaHolds

\* the tier the ratio r = (budget / people / days) / daily minimum gives:
\* r < 1.3 budget, 1.3 <= r < 2.5 moderate, r >= 2.5 luxury
TierOfRatio ==
    LET unit == feasibility.estimated_min_daily * trip_details.num_people
                * trip_details.num_days
    IN  IF 10 * trip_details.budget < 13 * unit THEN "budget-friendly"
        ELSE IF 10 * trip_details.budget >= 25 * unit THEN "luxury"
        ELSE "moderate"

RatioDefined ==
    /\ feasibility.estimated_min_daily > 0
    /\ trip_details.num_people > 0
    /\ trip_details.num_days > 0

\* C9: for every input for which the ratio r is defined, the tier is the
\* one r gives, boundaries 1.3 and 2.5 belonging to the upper band, and
\* exactly one of the three tiers results.
C9_TierOfRatio ==
    AfterValidation =>
        /\ feasibility.budget_tier \in {"budget-friendly", "moderate", "luxury"}
        /\ RatioDefined => feasibility.budget_tier = TierOfRatio

\* the ratio is 1.3 exactly
OnLowerLimit ==
    10 * trip_details.budget =
        13 * feasibility.estimated_min_daily * trip_details.num_people
           * trip_details.num_days

\* the tier is the one the ratio gives whenever the try block completes
\* for a positive number of travellers and the ratio is not 1.3 exactly
TierOfRatioWhenNothingRaises ==
    /\ AfterValidation /\ ~feasibility.raised /\ ~OnLowerLimit
    /\ trip_details.num_people > 0
    => RatioDefined /\ feasibility.budget_tier = TierOfRatio

\* a negative number of travellers makes daily_per_person negative, which
\* is the budget tier
NegativePartyIsBudgetFriendly ==
    /\ AfterValidation /\ ~feasibility.raised
    /\ trip_details.num_people < 0
    => feasibility.budget_tier = "budget-friendly"

\* a ratio of 1.3 exactly gives the moderate tier; the code gives the
\* budget tier to 7553 for one person and five days with the minimum
\* 1162, where the doubles are 1510.6 and 1510.6000000000001
LowerLimitIsModerate ==
    AfterValidation /\ ~feasibility.raised /\ OnLowerLimit =>
        feasibility.budget_tier = "moderate"

----------------------------------------------------------------------------
(* Properties of a conversation and of the failure paths, under Spec *)

\* the turn that is returning was given the slots the caller holds, they
\* carry an original destination, and the turn did not raise the budget
KeepsBudget ==
    /\ pc = "done"
    /\ previous_extraction = session
    /\ session.original_destination # None
    /\ ~(fresh.budget > session.budget)
    /\ response.status \in {"COLLECTING", "SUFFICIENT", "INSUFFICIENT"}

\* C11: when each turn is given the slots the previous turn returned, an
\* original destination D recorded by an INSUFFICIENT turn is still the
\* recorded one after every later turn that does not raise the budget,
\* whether that turn ends COLLECTING, SUFFICIENT or INSUFFICIENT and
\* whatever destination it substitutes, so that the first turn that
\* raises the budget is validated against D.
C11_OriginalDestinationSurvives ==
    [][KeepsBudget /\ pc' = "idle" =>
          session'.original_destination = session.original_destination]_vars

\* the extractor was called and returned no trip details
ExtractorFailed ==
    pc = "done" /\ "extractor_llm" \in calls /\ fresh = NoDetails

\* C12: when the extractor call fails the turn returns the "could not
\* understand, please rephrase" response and no error, and it has done no
\* merge, no cache access, no research lookup and no transport estimate.
C12_ExtractionFailureDegrades ==
    ExtractorFailed =>
        /\ response = ExtractionFailed
        /\ response.status # "HTTP_500"
        /\ trip_details = NoDetails
        /\ missing_fields = <<>>
        /\ calls \cap CostCalls = {}
        /\ research_data = NoResearch
        /\ feasibility = NoFeasibility

\* the extractor fails in a follow-up turn, with slots of an earlier turn
\* in the request and research of an earlier turn in the cache
C12_Witness ==
    /\ ExtractorFailed
    /\ response.message = "Extraction failed"
    /\ previous_extraction # NoPrevious
    /\ DOMAIN research_cache # {}

\* the four lookups were submitted and the turn ended without their data
ResearchLookupFailed ==
    /\ pc = "done"
    /\ ResearchLookups \subseteq calls
    /\ research_data = NoResearch

\* C13: when one of the four research lookups fails on a complete slot
\* set, the turn still ends SUFFICIENT or INSUFFICIENT and never in an
\* error returned to the caller.
C13_ResearchFailureDegrades ==
    ResearchLookupFailed =>
        response.status \in {"SUFFICIENT", "INSUFFICIENT"}

----------------------------------------------------------------------------
(* Properties of the transport estimate, under SpecFeasibility *)

\* the primary estimator raised and the fallback estimator raised
BothEstimatorsFailed ==
    /\ "estimate_transport_fallback" \in calls
    /\ feasibility.transport.kind = "raises"

\* required_total with a transport figure of 0, times five
PerDiemTotal_x5 ==
    6 * (feasibility.estimated_min_daily * trip_details.num_days
         * trip_details.num_people)

\* C14: a transport figure an estimator returned is a non-negative
\* number, and when the primary estimator and the fallback both fail the
\* verdict is the one the formula gives with a transport figure of 0: a
\* budget below the buffered per-diem cost is reported insufficient.
C14_TransportZeroWhenBothFail ==
    AfterValidation =>
        /\ feasibility.transport.kind = "returns" =>
               feasibility.transport.value >= 0
        /\ BothEstimatorsFailed /\ RatioDefined =>
               (feasibility.is_budget_sufficient
                    <=> (5 * trip_details.budget >= PerDiemTotal_x5))

\* the primary estimator raised or returned no figure
PrimaryFailed ==
    \/ "estimate_transport_fallback" \in calls
    \/ feasibility.transport.kind = "returns_none"

\* C15: whenever the primary estimator fails, by raising or by returning
\* a missing result, the fallback estimator is called, and the figure it
\* returns is the transport figure of the verdict.
C15_FallbackOnAnyPrimaryFailure ==
    AfterValidation /\ PrimaryFailed =>
        /\ "estimate_transport_fallback" \in calls
        /\ feasibility.transport.kind \in {"returns", "raises"}
        /\ feasibility.transport.kind = "returns" /\ RatioDefined =>
               FormulaHolds

\* when the primary estimator raises, the fallback is called and its
\* figure is the one the verdict uses
FallbackWhenPrimaryRaises ==
    /\ AfterValidation
    /\ "estimate_transport_fallback" \in calls
    /\ feasibility.transport.kind = "returns"
    /\ RatioDefined
    => ~feasibility.raised /\ FormulaHolds

----------------------------------------------------------------------------
(* Properties of the research cache, under Spec *)

\* the cache holds an entry for the destination d
Cached(d) ==
    d \in DOMAIN research_cache /\ d \in DOMAIN research_cache_timestamps

\* the entry for d was inserted less than the cache duration ago
Fresh(d) ==
    Cached(d)
    /\ now - research_cache_timestamps[d] < RESEARCH_CACHE_DURATION_SECONDS

\* the research step of the turn is being taken
ResearchStep == pc = "research" /\ pc' # "research"

\* the four lookups of the step all returned
LookupsReturned == pc' = "feasibility" /\ "cache_research" \in calls'

\* C16: a get 3600 seconds or more after the insertion finds nothing, the
\* four lookups are issued again and, when they return, their data is
\* inserted with the time of the insertion; a get less than 3600 seconds after
\* the insertion returns the inserted data and issues no lookup; data the
\* turn took from the cache is never 3600 seconds old or older.
C16_CacheTTL ==
    [][ResearchStep =>
          LET d == trip_details.destination
          IN  /\ Cached(d) /\ ~Fresh(d) =>
                    /\ ResearchLookups \subseteq calls'
                    /\ LookupsReturned =>
                          /\ research_cache'[d] = research_data'
                          /\ research_cache_timestamps'[d] = now'
              /\ Fresh(d) =>
                    /\ research_data' = research_cache[d]
                    /\ calls' \cap ResearchLookups = {}
                    /\ UNCHANGED <<research_cache, research_cache_timestamps>>
              /\ "cache_research" \notin calls' /\ pc' = "feasibility" =>
                    Fresh(d)]_vars

\* a turn at time 3600 or later has fetched the research of its
\* destination again and inserted it; an earlier turn had ended
\* INSUFFICIENT for that destination, so the cache held its research
C16_Witness ==
    /\ pc = "feasibility"
    /\ session.was_budget_insufficient
    /\ session.destination = trip_details.destination
    /\ now >= RESEARCH_CACHE_DURATION_SECONDS
    /\ "cache_research" \in calls
    /\ Cached(trip_details.destination)
    /\ research_cache_timestamps[trip_details.destination] = now
    /\ research_data = research_cache[trip_details.destination]
    /\ DOMAIN research_cache = {trip_details.destination}

\* request r has written its dict into the cache
Populated(r) == inflight[r].put_at >= 0

\* the get of request r returned a dict
ReadObject(r) == inflight[r].cached_research # 0

\* the get of request r fell into the validity window of the entry that
\* request w wrote for the same destination
InWindowOf(r, w) ==
    /\ Populated(w)
    /\ inflight[r].destination = inflight[w].destination
    /\ inflight[w].put_at <= inflight[r].get_at
    /\ inflight[r].get_at - inflight[w].put_at
           < RESEARCH_CACHE_DURATION_SECONDS

\* C18: with several requests in flight together, every get that returns
\* an object inside the validity window of an entry of its destination
\* returns the object of that entry, whichever request wrote it, and no
\* step changes an entry, its object or its insertion time before the
\* entry has expired.
C18_ConcurrentReadsSameObject ==
    [][/\ \A d \in DOMAIN research_cache :
             Fresh(d) =>
                 /\ d \in DOMAIN research_cache'
                 /\ research_cache'[d] = research_cache[d]
                 /\ research_cache_timestamps'[d] = research_cache_timestamps[d]
                 /\ cache_object'[d] = cache_object[d]
       /\ \A r \in Requests, w \in Requests :
             ReadObject(r)' /\ InWindowOf(r, w)' =>
                 inflight'[r].cached_research = inflight'[w].research_data]_vars

\* a request that arrived while another was waiting for the lookups of
\* the same destination has read the object the other then wrote, and a
\* third request has read that same object
C18_ConcurrentWitness ==
    \E r \in Requests, w \in Requests, q \in Requests :
        /\ r # w /\ q # r /\ q # w
        /\ inflight[r].behind = w
        /\ Populated(w)
        /\ ReadObject(r) /\ InWindowOf(r, w)
        /\ inflight[r].cached_research = w
        /\ ReadObject(q) /\ InWindowOf(q, w)
        /\ inflight[q].cached_research = w

\* no two requests are between their miss and their write at once: the
\* second of two requests made together finds what the first has written
NoDuplicateFetch ==
    \A r \in Requests, w \in Requests :
        /\ inflight[r].pc \in {"lookups", "cache", "waiting"}
        /\ inflight[w].pc \in {"lookups", "cache", "waiting"}
        => r = w

\* two requests have both missed and both written inside one window
BothMissBothPopulate ==
    \E r \in Requests, w \in Requests :
        /\ r # w
        /\ Populated(r) /\ Populated(w)
        /\ inflight[r].destination = inflight[w].destination
        /\ inflight[r].put_at <= inflight[w].put_at
        /\ inflight[w].put_at - inflight[r].put_at
               < RESEARCH_CACHE_DURATION_SECONDS

\* two writes for one destination are a validity window apart
WritesAWindowApart == ~BothMissBothPopulate

----------------------------------------------------------------------------
(* Properties of the research step, under SpecResearch and                 *)
(* SpecResearchFair                                                        *)

\* C17: a get for a destination returns the data put under any key that
\* differs from it only in letter case, while the entry is valid, and
\* issues no lookup; a destination that differs from every key beyond
\* letter case is a miss, for which the lookups are issued.
C17_CacheKeyCaseInsensitive ==
    [][ResearchStep =>
          LET d == trip_details.destination
          IN  /\ \A k \in DOMAIN research_cache :
                    Lower(k) = Lower(d) /\ Fresh(k) =>
                        /\ research_data' = research_cache[k]
                        /\ calls' \cap ResearchLookups = {}
              /\ (\A k \in DOMAIN research_cache : Lower(k) # Lower(d)) =>
                    ResearchLookups \subseteq calls']_vars

\* a get with the very key of a valid entry returns the entry, and a get
\* with a key that differs beyond letter case misses
CacheKeyExact ==
    [][ResearchStep =>
          LET d == trip_details.destination
          IN  /\ Fresh(d) => research_data' = research_cache[d]
              /\ ~Cached(d) => ResearchLookups \subseteq calls']_vars

\* C19: a turn on a complete slot set that has reached the research step
\* completes, whatever the four lookups do.
C19_TurnCompletes == (pc = "research") ~> (pc = "done")

\* a turn whose lookups all return or raise completes
TurnCompletesUnlessBlocked ==
    (pc = "research") ~> (pc \in {"done", "waiting"})

----------------------------------------------------------------------------
(* Property of the intent branch, under Spec *)

\* C20: when the classifier has returned a label other than
\* TRIP_PLANNING, the turn has ended at once with a canned response (or
\* with the failure of the model call that writes it): the extractor, the
\* merge, the completeness check, the cache and the estimators have not
\* been invoked.
C20_OtherIntentShortCircuits ==
    intent \notin {None, "TRIP_PLANNING"} =>
        /\ pc = "done"
        /\ response.status \in {"CANNED", "HTTP_500"}
        /\ "extractor_llm" \notin calls
        /\ fresh = NoDetails
        /\ trip_details = NoDetails
        /\ missing_fields = <<>>
        /\ calls \cap CostCalls = {}

\* a label the handler has a branch for ends the turn with a canned
\* response and nothing else invoked
KnownIntentShortCircuits ==
    intent \in SmartIntents \cup {"MODIFICATION_REQUEST"} =>
        /\ pc = "done"
        /\ response.status \in {"CANNED", "HTTP_500"}
        /\ calls \subseteq {"intent_llm", "smart_llm"}
        /\ trip_details = NoDetails

----------------------------------------------------------------------------
(* Properties of the parse of the research text, under SpecParser *)

\* the research text of the turn
BudgetText == research_data.minimum_budget

\* the plausible range of a daily minimum
Plausible(n) == MinRupee <= n /\ n <= MaxRupee

\* the amounts written in rupees that lie in the plausible range
PlausibleRupees ==
    {BudgetText.rupee_amounts[i] : i \in DOMAIN BudgetText.rupee_amounts}
    \cap {n \in MinRupee..MaxRupee : TRUE}

\* the amounts written in dollars, converted, that lie in the range
PlausibleDollars ==
    {UsdRate * BudgetText.dollar_amounts[i] :
        i \in DOMAIN BudgetText.dollar_amounts}
    \cap {n \in MinRupee..MaxRupee : TRUE}

\* least element of a non-empty set of numbers
SetMin(S) == CHOOSE m \in S : \A x \in S : m <= x

\* C21: for a text without the marker, the daily minimum is the least of
\* the rupee amounts of the text that lie in [1000, 15000], amounts
\* outside the range being ignored; when no amount of either currency
\* lies in the range it is the default 2500.
C21_MinimumOfPlausibleRupees ==
    AfterValidation /\ BudgetText.marker = <<>> =>
        /\ PlausibleRupees # {} =>
              feasibility.estimated_min_daily = SetMin(PlausibleRupees)
        /\ PlausibleRupees = {} /\ PlausibleDollars = {} =>
              feasibility.estimated_min_daily = DefaultMinDaily

\* every amount of the text has at most five digits
ShortAmounts ==
    \A i \in DOMAIN BudgetText.rupee_amounts :
        BudgetText.rupee_amounts[i] < 10^RupeeDigits

\* when every rupee amount has at most five digits, the daily minimum is
\* the least plausible rupee amount, and the default when there are rupee
\* amounts and none is plausible
MinimumOfPlausibleShortRupees ==
    AfterValidation /\ BudgetText.marker = <<>> /\ ShortAmounts =>
        /\ PlausibleRupees # {} =>
              feasibility.estimated_min_daily = SetMin(PlausibleRupees)
        /\ PlausibleRupees = {} /\ BudgetText.rupee_amounts # <<>> =>
              feasibility.estimated_min_daily = DefaultMinDaily

\* C22: for a text without the marker in which no rupee amount is
\* plausible (none is written, or all lie outside [1000, 15000]) and some
\* dollar amount converts to a plausible value, the daily minimum is the
\* least plausible converted dollar amount, not the default.
C22_DollarsWhenNoPlausibleRupee ==
    AfterValidation /\ BudgetText.marker = <<>> =>
        (PlausibleRupees = {} /\ PlausibleDollars # {} =>
            feasibility.estimated_min_daily = SetMin(PlausibleDollars))

\* C23: the daily minimum that reaches the formula is a positive number
\* in [1000, 15000] or the default, whatever the text.
C23_DailyMinimumBounded ==
    AfterValidation =>
        /\ feasibility.estimated_min_daily > 0
        /\ \/ Plausible(feasibility.estimated_min_daily)
           \/ feasibility.estimated_min_daily = DefaultMinDaily

----------------------------------------------------------------------------
(* Properties of the strategy and of the verdict, under SpecFeasibility,   *)
(* and of the COLLECTING response, under SpecMerge                         *)

\* the turn has ended with a plan
Planned == pc = "done" /\ response.status \in {"SUFFICIENT", "INSUFFICIENT"}

\* C24: the standard strategy is selected iff the verdict is sufficient
\* and the re-planning strategy iff it is insufficient, whatever the
\* tier, and a tier has been computed in both cases.
C24_StrategyFollowsVerdict ==
    Planned =>
        /\ (response.strategy = "standard") <=> feasibility.is_budget_sufficient
        /\ (response.strategy = "replanning")
               <=> ~feasibility.is_budget_sufficient
        /\ feasibility.budget_tier
               \in {"budget-friendly", "moderate", "luxury"}

\* an insufficient budget in the luxury tier: 10000 for one person and one
\* day is four times the daily minimum 2500 and less than the 11000
\* required; the re-planning strategy is selected
C24_Witness ==
    /\ Planned
    /\ ~feasibility.raised
    /\ ~feasibility.is_budget_sufficient
    /\ feasibility.budget_tier = "luxury"
    /\ response.strategy = "replanning"

\* the elements of a list
Elements(seq) == {seq[i] : i \in DOMAIN seq}

\* C25: in a COLLECTING response each of the five required fields is
\* echoed as known iff it is not listed as missing.
C25_EchoedIffNotMissing ==
    pc = "done" /\ response.status = "COLLECTING" =>
        \A l \in {"origin city", "destination", "duration", "budget",
                  "start date"} :
            (l \in Elements(response.current_info))
                <=> (l \notin Elements(missing_fields))

\* C26: a turn reported as sufficient (standard strategy, no insufficient
\* flag, no original destination) has a budget that is at least the
\* required total of its daily minimum and of a transport figure an
\* estimator returned; this holds on every path through the feasibility
\* step.
C26_SufficientOnlyIfCompared ==
    pc = "done" /\ response.status = "SUFFICIENT" =>
        /\ response.strategy = "standard"
        /\ ~response.extracted_details.was_budget_insufficient
        /\ response.extracted_details.original_destination = None
        /\ feasibility.transport.kind = "returns"
        /\ 5 * trip_details.budget >= RequiredTotal_x5

----------------------------------------------------------------------------
(* OTP claims, checked under SpecOtp *)

\* the last operation was a verify_otp for identifier i that succeeded
Accepted(i) ==
    /\ otp_result.op = "verify_otp"
    /\ otp_result.identifier = i
    /\ otp_result.success

\* the step is a verify-otp request for identifier i
VerifyStep(i) ==
    /\ VerifyOtp
    /\ otp_result'.op = "verify_otp"
    /\ otp_result'.identifier = i

\* C27: for each OTP send_otp issued, verify_otp returns success at most
\* once; once it has succeeded every later verify_otp for the identifier
\* fails, the correct code included, until send_otp issues a new OTP
C27_SingleUse ==
    /\ [](\A i \in OtpIdentifiers : otp_issued[i].successes <= 1)
    /\ [][\A i \in OtpIdentifiers :
            (VerifyStep(i) /\ otp_issued[i].successes >= 1)
                => /\ ~otp_result'.success
                   /\ otp_issued'[i].successes = otp_issued[i].successes]_vars

\* the correct code has been refused because the OTP was used already
C27_Witness ==
    \E i \in OtpIdentifiers :
        /\ otp_result.op = "verify_otp"
        /\ otp_result.identifier = i
        /\ ~otp_result.success
        /\ otp_result.otp = otp_issued[i].otp
        /\ otp_issued[i].successes = 1
        /\ i \in DOMAIN otp_storage
        /\ otp_storage[i].verified
        /\ otp_now <= otp_storage[i].expires_at

\* C28: at most MAX_ATTEMPTS codes are ever compared with an issued OTP
\* and its attempts counter never exceeds MAX_ATTEMPTS; after
\* MAX_ATTEMPTS wrong codes every later verify_otp fails, the correct
\* code included, and leaves no entry for the identifier
C28_AttemptLimit ==
    /\ [](\A i \in OtpIdentifiers :
            /\ otp_issued[i].compared <= MAX_ATTEMPTS
            /\ i \in DOMAIN otp_storage
                   => otp_storage[i].attempts <= MAX_ATTEMPTS)
    /\ [][\A i \in OtpIdentifiers :
            (/\ VerifyStep(i)
             /\ otp_issued[i].compared >= MAX_ATTEMPTS
             /\ otp_issued[i].successes = 0)
                => /\ ~otp_result'.success
                   /\ otp_issued'[i].compared = otp_issued[i].compared
                   /\ i \notin DOMAIN otp_storage']_vars

\* after three wrong codes the correct one has been refused in time, and
\* the entry is gone
C28_Witness ==
    \E i \in OtpIdentifiers :
        /\ otp_result.op = "verify_otp"
        /\ otp_result.identifier = i
        /\ ~otp_result.success
        /\ otp_result.otp = otp_issued[i].otp
        /\ otp_result.message = "Maximum attempts exceeded"
        /\ otp_issued[i].compared = MAX_ATTEMPTS
        /\ otp_issued[i].successes = 0
        /\ otp_result.at <=
               otp_issued[i].issued_at + Minutes(OTP_VALIDITY_MINUTES)
        /\ i \notin DOMAIN otp_storage

\* C29: verify_otp never returns success later than issue time +
\* OTP_VALIDITY_MINUTES, whatever send_otp, verify_otp and
\* cleanup_expired_otps did before; an unverified entry checked after its
\* expires_at is deleted
C29_Expiry ==
    /\ [](\A i \in OtpIdentifiers :
            Accepted(i) =>
                otp_result.at <=
                    otp_issued[i].issued_at + Minutes(OTP_VALIDITY_MINUTES))
    /\ [][\A i \in OtpIdentifiers :
            (/\ VerifyStep(i)
             /\ i \in DOMAIN otp_storage
             /\ ~otp_storage[i].verified
             /\ otp_now > otp_storage[i].expires_at)
                => /\ ~otp_result'.success
                   /\ i \notin DOMAIN otp_storage']_vars

\* the correct code of an unverified OTP has been refused after expiry
\* and the entry deleted by that verify_otp
C29_Witness ==
    \E i \in OtpIdentifiers :
        /\ otp_result.op = "verify_otp"
        /\ otp_result.identifier = i
        /\ ~otp_result.success
        /\ otp_result.message = "OTP expired"
        /\ otp_result.otp = otp_issued[i].otp
        /\ otp_issued[i].successes = 0
        /\ otp_issued[i].compared < MAX_ATTEMPTS
        /\ otp_result.at >
               otp_issued[i].issued_at + Minutes(OTP_VALIDITY_MINUTES)
        /\ i \notin DOMAIN otp_storage

\* C30: no OTP is accepted by verify_otp later than expires_in seconds
\* after the send-otp response that issued it
C30_AdvertisedWindowEnforced ==
    \A i \in OtpIdentifiers :
        Accepted(i) =>
            otp_result.at <= otp_issued[i].issued_at + otp_issued[i].expires_in

====
